---- MODULE Spec2Model ----
(***************************************************************************)
(* Werewolves game server (src/unnamed/part_001, src/orphanManager.js).    *)
(* One room of the registry `games` is modelled: its seats, participants,  *)
(* role assignment, role pool, phase, night-action bag and day result.     *)
(*                                                                         *)
(*   Spec        the room: joinGame, chooseSeat, startGame, shuffleRoles,  *)
(*               disconnect                                                *)
(*   SpecPool    createRolePool and assignRoleToPlayer on bounded configs  *)
(*   SpecDay     startDayPhase on every night-action bag and lover pair    *)
(*   SpecNight   the night: role actions of the holders, continuations     *)
(*   SpecRejoin  the night with lost connections and joinGame              *)
(*   SpecEvents  the night with every event from every connection          *)
(*   SpecGame    a game that is started and shuffled again                 *)
(*   SpecOrphan  orphanManager and getOrphanMap                            *)
(*   SpecRestart      startGame, shuffleRoles and orphanSelectFather       *)
(*   SpecOrphanNight  one game with an orphan                              *)
(*   SpecTeardown     the night with the host's disconnect                 *)
(*   SpecLive         the night with fair continuations and holders        *)
(***************************************************************************)
EXTENDS Integers, Sequences, FiniteSets, Bags, TLC

(***************************************************************************)
(* Bounds of the model.                                                    *)
(***************************************************************************)
\* socket ids are 1..MaxSockets; socket 1 is the host's connection
MaxSockets == 2
\* pending setTimeout continuations kept per room
MaxTimers == 1
\* SpecPool: seats of a configuration, and the largest per-role count
MaxSeats == 4
MaxCount == 2
\* SpecDay: participant identities 1..MaxIds appear as targets and lovers
MaxIds == 3
\* Spec: seats of the room
RoomSeats == 2
\* SpecNight: socket ids (three seats and another connection), and the
\* continuations that can be pending together
MaxNightSockets == 4
MaxNightTimers == 2
\* SpecOrphan: the participants of a room, each possibly a dependent
MaxOrphanIds == 3
\* SpecEvents: socket ids, the two participants and another connection
MaxEventSockets == 3

(***************************************************************************)
(* Values.                                                                 *)
(***************************************************************************)
\* null / undefined participant identity, seat number or session id
None == 0
\* players[id].role before a role is assigned (null)
NoRole == "none"
\* game.rolePool before the pool is built (undefined, or null after a shuffle)
NullPool == <<"null">>
Room == "ROOM"
\* a seat's player: null is EmptySeat, else the occupant's id and flag
EmptySeat == [id |-> None, isConnected |-> FALSE]

SpecialRoleNames == {"cupid", "guard", "witch", "seer", "hunter"}
RoleNames == {"werewolf", "orphan", "villager"} \cup SpecialRoleNames

\* the ids of stand-ins: `fake_${Date.now()}_${index}`, one per seat index
FakeId(seatId) == 0 - seatId

Put(f, k, v) == [x \in (DOMAIN f) \cup {k} |-> IF x = k THEN v ELSE f[x]]
Del(f, k) == [x \in (DOMAIN f) \ {k} |-> f[x]]
Empty == [x \in {} |-> None]

RECURSIVE Repeat(_, _)
Repeat(x, n) == IF n <= 0 THEN <<>> ELSE <<x>> \o Repeat(x, n - 1)

CountIn(s, x) == Cardinality({i \in DOMAIN s : s[i] = x})

(***************************************************************************)
(* Role pool.                                                              *)
(***************************************************************************)
\* mutant: the orphan tokens are left out
AllRoles_NoOrphans(cfg) ==
  Repeat("werewolf", cfg.numWerewolves)
    \o cfg.specialRoles
    \o Repeat("villager", cfg.numVillagers)

\* allRoles of createRolePool before the shuffle
AllRoles(cfg) ==
  Repeat("werewolf", cfg.numWerewolves)
    \o Repeat("orphan", cfg.numOrphans)
    \o cfg.specialRoles
    \o Repeat("villager", cfg.numVillagers)

\* allRoles.sort(() => Math.random() - 0.5): some permutation of allRoles
Shuffled(all) ==
  {[i \in 1..Len(all) |-> all[p[i]]] : p \in Permutations(1..Len(all))}

createRolePool(cfg) == Shuffled(AllRoles(cfg))

\* mutant: the drawn token is put back at the end of the pool
DrawFrom_TokenReturned(pool, ps, rs, playerId) ==
  LET role == IF Len(pool) > 0 THEN Head(pool) ELSE "villager" IN
  [rolePool |-> IF Len(pool) > 0 THEN Tail(pool) \o <<role>> ELSE pool,
   players |-> [ps EXCEPT ![playerId].role = role],
   roles |-> Put(rs, playerId, role),
   role |-> role]

\* mutant: no fallback, an empty pool yields no role
DrawFrom_NoFallback(pool, ps, rs, playerId) ==
  LET role == IF Len(pool) > 0 THEN Head(pool) ELSE NoRole IN
  [rolePool |-> IF Len(pool) > 0 THEN Tail(pool) ELSE pool,
   players |-> [ps EXCEPT ![playerId].role = role],
   roles |-> Put(rs, playerId, role),
   role |-> role]

\* assignRoleToPlayer(game, playerId) once game.rolePool is an array:
\* the pool, players and roles it leaves and the role it returns
DrawFrom(pool, ps, rs, playerId) ==
  LET role == IF Len(pool) > 0 THEN Head(pool) ELSE "villager" IN
  [rolePool |-> IF Len(pool) > 0 THEN Tail(pool) ELSE pool,
   players |-> [ps EXCEPT ![playerId].role = role],
   roles |-> Put(rs, playerId, role),
   role |-> role]

\* assignRoleToPlayer(game, playerId): the possible results, one per shuffle
\* when the pool has to be built first
assignRoleToPlayer(cfg, pool, ps, rs, playerId) ==
  IF pool = NullPool
    THEN {DrawFrom(built, ps, rs, playerId) : built \in createRolePool(cfg)}
    ELSE {DrawFrom(pool, ps, rs, playerId)}

(***************************************************************************)
(* State.                                                                  *)
(***************************************************************************)
VARIABLES
  games,              \* room ids in the registry: {Room} or {}
  hostId,             \* game.hostId
  config,             \* game.config
  seats,              \* game.seats: seat id -> its player (or EmptySeat)
  players,            \* game.players: id -> participant record
  roles,              \* game.roles: id -> role
  rolePool,           \* game.rolePool
  phase,              \* game.phase
  nightActions,       \* game.nightActions
  nightPhaseActions,  \* game.nightPhaseActions
  lovers,             \* game.lovers
  dayResults,         \* game.dayResults
  orphanFatherMap,    \* orphanManager.orphanFatherMap
  timers,             \* pending setTimeout continuations (a bag)
  connected,          \* sockets whose connection is open
  started,            \* roles whose sub-phase has been started since the
                      \* completion flags were last reset
  chose,              \* participants whose orphanSelectFather was accepted
                      \* since the last successful startGame
  reply               \* what the last step sent: cb(...) and roleAssigned of a
                      \* handler, the notification of a continuation

vars == <<games, hostId, config, seats, players, roles, rolePool, phase,
          nightActions, nightPhaseActions, lovers, dayResults,
          orphanFatherMap, timers, connected, started, chose, reply>>

(***************************************************************************)
(* Initial values of a room's fields.                                      *)
(***************************************************************************)
\* game.nightActions before startGame (undefined): defined = FALSE
NoNightActions ==
  [defined |-> FALSE, werewolfKill |-> None, witchSave |-> FALSE,
   witchPoison |-> None, guardProtect |-> None, seerCheck |-> None,
   seerResult |-> "none"]

\* the literal startGame assigns; guardProtect is not a key of it (undefined)
FreshNightActions == [NoNightActions EXCEPT !.defined = TRUE]

\* game.nightPhaseActions before the first startNightPhase (undefined)
NoNightPhaseActions ==
  [defined |-> FALSE, cupid |-> FALSE, guard |-> FALSE, werewolf |-> FALSE,
   witch |-> FALSE, seer |-> FALSE, hunter |-> FALSE]

\* the literal startNightPhase assigns
FreshNightPhaseActions == [NoNightPhaseActions EXCEPT !.defined = TRUE]

\* game.dayResults: undefined before startGame, {deaths: [], survived: []}
\* after it ("set"), {} after shuffleRoles ("empty")
NoDayResults == [state |-> "undefined", deaths |-> <<>>]
FreshDayResults == [state |-> "set", deaths |-> <<>>]
EmptyDayResults == [state |-> "empty", deaths |-> <<>>]

NoReply == [event |-> "none", success |-> TRUE, message |-> "", role |-> NoRole]

Answer(event, success, message) ==
  [event |-> event, success |-> success, message |-> message, role |-> NoRole]

(***************************************************************************)
(* Resolution of the night: startDayPhase.                                 *)
(***************************************************************************)
\* mutant: the guard's protection is not looked at
AttackDeaths_NoGuard(na) ==
  IF na.werewolfKill # None /\ ~na.witchSave
    THEN <<na.werewolfKill>>
    ELSE <<>>

\* mutant: the kill is negated only when saved and protected together
AttackDeaths_SaveAndGuard(na) ==
  IF na.werewolfKill # None
     /\ ~(na.witchSave /\ na.werewolfKill = na.guardProtect)
    THEN <<na.werewolfKill>>
    ELSE <<>>

\* the werewolf kill, unless saved by the witch or protected by the guard
AttackDeaths(na) ==
  IF na.werewolfKill # None /\ ~na.witchSave
     /\ na.werewolfKill # na.guardProtect
    THEN <<na.werewolfKill>>
    ELSE <<>>

\* mutant: the guard's protection also stops the poison
PoisonDeaths_Guarded(na) ==
  IF na.witchPoison # None /\ na.witchPoison # na.guardProtect
    THEN <<na.witchPoison>>
    ELSE <<>>

PoisonDeaths(na) ==
  IF na.witchPoison # None THEN <<na.witchPoison>> ELSE <<>>

Includes(s, x) == \E i \in DOMAIN s : s[i] = x

\* mutant: only the first lover's death is followed
Heartbreak_OneWay(deaths, lv) ==
  IF Len(lv) = 2 /\ Includes(deaths, lv[1]) /\ ~Includes(deaths, lv[2])
    THEN <<lv[2]>>
    ELSE <<>>

\* if one lover is in the list and the other is not, the other follows
Heartbreak(deaths, lv) ==
  IF Len(lv) = 2
    THEN LET lover1Died == Includes(deaths, lv[1])
             lover2Died == Includes(deaths, lv[2])
         IN  IF lover1Died /\ ~lover2Died THEN <<lv[2]>>
             ELSE IF lover2Died /\ ~lover1Died THEN <<lv[1]>>
             ELSE <<>>
    ELSE <<>>

DayDeaths(na, lv) ==
  LET deaths == AttackDeaths(na) \o PoisonDeaths(na)
  IN  deaths \o Heartbreak(deaths, lv)

\* the body of startDayPhase(roomId); a missing room returns at once, and
\* before the first startGame game.nightActions is undefined: the first read
\* of it ends the function in a TypeError
startDayPhase ==
  IF Room \in games /\ nightActions.defined
    THEN /\ dayResults' = [state |-> "set",
                           deaths |-> DayDeaths(nightActions, lovers)]
         /\ phase' = "day"
    ELSE UNCHANGED <<dayResults, phase>>

\* the continuation startDetectorElectionPhase schedules (3000 ms) fires
FireStartDayPhase ==
  /\ BagIn("startDayPhase", timers)
  /\ timers' = timers (-) SetToBag({"startDayPhase"})
  /\ startDayPhase
  /\ reply' = NoReply
  /\ UNCHANGED <<games, hostId, config, seats, players, roles, rolePool,
                 nightActions, nightPhaseActions, lovers, orphanFatherMap,
                 connected, started, chose>>

(***************************************************************************)
(* SpecDay: startDayPhase on every night-action bag and lover pair.  The   *)
(* handlers werewolfKill, guardProtect, witchSave, witchPoison and         *)
(* cupidSelect record their payload without looking at the rest of the     *)
(* bag, so every combination below can be pending when the timer fires.    *)
(***************************************************************************)
Ids == 1..MaxIds

DayConfig ==
  [totalPlayers |-> MaxIds, numWerewolves |-> 1, numOrphans |-> 0,
   numVillagers |-> MaxIds - 1, specialRoles |-> <<>>]

NightActionBags ==
  {[FreshNightActions EXCEPT !.werewolfKill = k, !.witchSave = s,
                             !.witchPoison = p, !.guardProtect = g] :
     k \in Ids \cup {None}, s \in BOOLEAN,
     p \in Ids \cup {None}, g \in Ids \cup {None}}

LoverPairs == {<<>>} \cup {pr \in Ids \X Ids : pr[1] # pr[2]}

InitDay ==
  /\ games = {Room}
  /\ hostId = 1
  /\ config = DayConfig
  /\ seats = [k \in 1..MaxIds |-> [id |-> k, isConnected |-> TRUE]]
  /\ players = Empty
  /\ roles = Empty
  /\ rolePool = <<>>
  /\ phase = "night"
  /\ nightActions \in NightActionBags
  /\ nightPhaseActions = FreshNightPhaseActions
  /\ lovers \in LoverPairs
  /\ dayResults = FreshDayResults
  /\ orphanFatherMap = Empty
  /\ timers = SetToBag({"startDayPhase"})
  /\ connected = 1..MaxIds
  /\ started = {}
  /\ chose = {}
  /\ reply = NoReply

NextDay == FireStartDayPhase

SpecDay == InitDay /\ [][NextDay]_vars

(***************************************************************************)
(* SpecPool: createRolePool and assignRoleToPlayer on bounded              *)
(* configurations.  A room holds config.totalPlayers joined participants   *)
(* 1..totalPlayers; they draw in that order, at most one draw per seat.    *)
(***************************************************************************)
\* the record joinGame creates for a fresh participant
NewPlayer(sock, session, host) ==
  [seat |-> None, role |-> NoRole, isHost |-> (sock = host),
   sessionId |-> session, isConnected |-> TRUE, isFake |-> FALSE]

SpecialLists == {<<>>} \cup {<<r>> : r \in {"seer", "witch"}}

\* the configuration of the scenario: 6 seats, 2 werewolves, 3 villagers, seer
ExampleConfig ==
  [totalPlayers |-> 6, numWerewolves |-> 2, numOrphans |-> 0,
   numVillagers |-> 3, specialRoles |-> <<"seer">>]

PoolConfigs ==
  {c \in [totalPlayers : 1..MaxSeats, numWerewolves : 0..MaxCount,
          numOrphans : 0..MaxCount, numVillagers : 0..MaxCount,
          specialRoles : SpecialLists] :
     Len(AllRoles(c)) <= MaxSeats}
    \cup {ExampleConfig}

InitPool ==
  /\ games = {Room}
  /\ hostId = 1
  /\ config \in PoolConfigs
  /\ seats = [k \in 1..config.totalPlayers |-> EmptySeat]
  /\ players = [id \in 1..config.totalPlayers |-> NewPlayer(id, id, 1)]
  /\ roles = Empty
  /\ rolePool = NullPool
  /\ phase = "lobby"
  /\ nightActions = NoNightActions
  /\ nightPhaseActions = NoNightPhaseActions
  /\ lovers = <<>>
  /\ dayResults = NoDayResults
  /\ orphanFatherMap = Empty
  /\ timers = EmptyBag
  /\ connected = 1..config.totalPlayers
  /\ started = {}
  /\ chose = {}
  /\ reply = NoReply

PoolFrame ==
  UNCHANGED <<games, hostId, config, seats, phase, nightActions,
              nightPhaseActions, lovers, dayResults, orphanFatherMap,
              timers, connected, started, chose>>

\* game.rolePool = createRolePool(game.config)
CreatePool ==
  /\ rolePool = NullPool
  /\ rolePool' \in createRolePool(config)
  /\ reply' = Answer("createRolePool", TRUE, "")
  /\ UNCHANGED <<players, roles>>
  /\ PoolFrame

\* assignRoleToPlayer(game, id) for the next participant without a role
AssignRole ==
  LET id == Cardinality(DOMAIN roles) + 1 IN
  /\ id \in DOMAIN players
  /\ \E r \in assignRoleToPlayer(config, rolePool, players, roles, id) :
       /\ rolePool' = r.rolePool
       /\ players' = r.players
       /\ roles' = r.roles
       /\ reply' = [Answer("assignRoleToPlayer", TRUE, "") EXCEPT
                      !.role = r.role]
  /\ PoolFrame

NextPool == CreatePool \/ AssignRole

SpecPool == InitPool /\ [][NextPool]_vars

(***************************************************************************)
(* Spec: the room.  Init is the room createGame has just put into the      *)
(* registry; socket 1 is the host's connection and the other sockets are   *)
(* connections that are open and have not sent an event yet (a connection  *)
(* by itself changes nothing in the room, lines 133-134).                  *)
(***************************************************************************)
Sockets == 1..MaxSockets

\* fakePlayerNames.length
NumFakeNames == 15

\* the configurations a host may have saved with configureGame: a werewolf
\* and either a villager (a token per seat) or none (fewer tokens than seats)
RoomConfigs ==
  { [totalPlayers |-> RoomSeats, numWerewolves |-> 1, numOrphans |-> 0,
     numVillagers |-> v, specialRoles |-> <<>>] : v \in {0, RoomSeats - 1} }

Init ==
  /\ games = {Room}
  /\ hostId = 1
  /\ config \in RoomConfigs
  /\ seats = [k \in 1..config.totalPlayers |-> EmptySeat]
  /\ players = Empty
  /\ roles = Empty
  /\ rolePool = NullPool
  /\ phase = "lobby"
  /\ nightActions = NoNightActions
  /\ nightPhaseActions = NoNightPhaseActions
  /\ lovers = <<>>
  /\ dayResults = NoDayResults
  /\ orphanFatherMap = Empty
  /\ timers = EmptyBag
  /\ connected = Sockets
  /\ started = {}
  /\ chose = {}
  /\ reply = Answer("createGame", TRUE, "")

NightVars == <<nightActions, nightPhaseActions, lovers, dayResults,
               orphanFatherMap, timers, started, chose>>

\* a handler that answers and changes nothing
Reject(event, message) ==
  /\ reply' = Answer(event, FALSE, message)
  /\ UNCHANGED <<games, hostId, config, seats, players, roles, rolePool,
                 phase, NightVars, connected>>

\* the session ids held by the participants of the room
SessionIds == {players[id].sessionId : id \in DOMAIN players} \ {None}

\* Date.now() + random: a session id no participant of the room holds.
\* The ids are opaque; the creating socket's id names it when that is free.
NewSessionId(s) ==
  IF s \notin SessionIds
    THEN s
    ELSE CHOOSE n \in 1..(Cardinality(DOMAIN players) + 1) :
           /\ n \notin SessionIds
           /\ \A m \in 1..(n - 1) : m \in SessionIds

\* game.seats.find(s => s.player && s.player.id === id): its seat id, or None
SeatOf(ss, id) ==
  IF \E k \in DOMAIN ss : ss[k].id = id
    THEN CHOOSE k \in DOMAIN ss :
           ss[k].id = id /\ \A j \in DOMAIN ss : ss[j].id = id => k <= j
    ELSE None

FilledSeats(ss) == Cardinality({k \in DOMAIN ss : ss[k].id # None})

\* mutant: the role is copied to socket s and the old entry is kept
Reconnect_RoleCopied(s, oldSocketId) ==
  LET playerData == players[oldSocketId]
      seatId == SeatOf(seats, oldSocketId)
  IN  /\ players' = Put(Del(players, oldSocketId), s,
                        [playerData EXCEPT !.isConnected = TRUE])
      /\ roles' = IF oldSocketId \in DOMAIN roles
                    THEN Put(roles, s, roles[oldSocketId])
                    ELSE roles
      /\ seats' = IF seatId # None
                    THEN [seats EXCEPT ![seatId] =
                            [id |-> s, isConnected |-> TRUE]]
                    ELSE seats
      /\ reply' = [Answer("joinGame", TRUE, "Reconnected successfully!")
                     EXCEPT !.role = IF s \in DOMAIN roles'
                                       THEN roles'[s] ELSE NoRole]

\* joinGame, the reconnect branch: the record, the role and the seat
\* reference of oldSocketId move to socket s
Reconnect(s, oldSocketId) ==
  LET playerData == players[oldSocketId]
      seatId == SeatOf(seats, oldSocketId)
  IN  /\ players' = Put(Del(players, oldSocketId), s,
                        [playerData EXCEPT !.isConnected = TRUE])
      /\ roles' = IF oldSocketId \in DOMAIN roles
                    THEN Del(Put(roles, s, roles[oldSocketId]), oldSocketId)
                    ELSE roles
      /\ seats' = IF seatId # None
                    THEN [seats EXCEPT ![seatId] =
                            [id |-> s, isConnected |-> TRUE]]
                    ELSE seats
      /\ reply' = [Answer("joinGame", TRUE, "Reconnected successfully!")
                     EXCEPT !.role = IF s \in DOMAIN roles'
                                       THEN roles'[s] ELSE NoRole]

\* mutant: the room takes one participant more than it has seats
JoinGame_OneMore(s, sessionId) ==
  /\ s \in connected
  /\ IF Room \notin games
       THEN Reject("joinGame", "Room not found")
       ELSE IF sessionId # None /\ sessionId \in SessionIds
         THEN /\ \E old \in DOMAIN players :
                   /\ players[old].sessionId = sessionId
                   /\ Reconnect(s, old)
              /\ UNCHANGED <<games, hostId, config, rolePool, phase,
                             NightVars, connected>>
         ELSE IF Cardinality(DOMAIN players) > config.totalPlayers
           THEN Reject("joinGame", "Room is full")
           ELSE /\ players' = Put(players, s,
                                  NewPlayer(s, NewSessionId(s), hostId))
                /\ reply' = [Answer("joinGame", TRUE, "Joined successfully!")
                               EXCEPT !.role = IF s \in DOMAIN roles
                                                 THEN roles[s] ELSE NoRole]
                /\ UNCHANGED <<games, hostId, config, seats, roles,
                               rolePool, phase, NightVars, connected>>

\* socket.on('joinGame', ({ roomId, name, sessionId }, cb))
JoinGame(s, sessionId) ==
  /\ s \in connected
  /\ IF Room \notin games
       THEN Reject("joinGame", "Room not found")
       ELSE IF sessionId # None /\ sessionId \in SessionIds
         THEN /\ \E old \in DOMAIN players :
                   /\ players[old].sessionId = sessionId
                   /\ Reconnect(s, old)
              /\ UNCHANGED <<games, hostId, config, rolePool, phase,
                             NightVars, connected>>
         ELSE IF Cardinality(DOMAIN players) >= config.totalPlayers
           THEN Reject("joinGame", "Room is full")
           ELSE /\ players' = Put(players, s,
                                  NewPlayer(s, NewSessionId(s), hostId))
                /\ reply' = [Answer("joinGame", TRUE, "Joined successfully!")
                               EXCEPT !.role = IF s \in DOMAIN roles
                                                 THEN roles[s] ELSE NoRole]
                /\ UNCHANGED <<games, hostId, config, seats, roles,
                               rolePool, phase, NightVars, connected>>

\* mutant: a seated sender may take another seat
ChooseSeat_SeatChange(s, seatId) ==
  /\ s \in connected
  /\ IF Room \notin games \/ s \notin DOMAIN players
       THEN Reject("chooseSeat", "Invalid game or player")
       ELSE IF seatId \notin DOMAIN seats
         THEN Reject("chooseSeat", "Invalid seat")
       ELSE IF seats[seatId].id # None
         THEN Reject("chooseSeat", "Seat is already taken")
       ELSE
         /\ seats' = [seats EXCEPT ![seatId] =
                        [id |-> s, isConnected |-> TRUE]]
         /\ \E r \in assignRoleToPlayer(config, rolePool,
                       [players EXCEPT ![s].seat = seatId,
                                       ![s].isConnected = TRUE],
                       roles, s) :
              /\ rolePool' = r.rolePool
              /\ players' = r.players
              /\ roles' = r.roles
              /\ reply' = [Answer("chooseSeat", TRUE, "Seated successfully!")
                             EXCEPT !.role = r.role]
         /\ UNCHANGED <<games, hostId, config, phase, NightVars, connected>>

\* socket.on('chooseSeat', ({ roomId, seatId }, cb))
ChooseSeat(s, seatId) ==
  /\ s \in connected
  /\ IF Room \notin games \/ s \notin DOMAIN players
       THEN Reject("chooseSeat", "Invalid game or player")
       ELSE IF seatId \notin DOMAIN seats
         THEN Reject("chooseSeat", "Invalid seat")
       ELSE IF seats[seatId].id # None
         THEN Reject("chooseSeat", "Seat is already taken")
       ELSE IF SeatOf(seats, s) # None
         THEN Reject("chooseSeat",
                     "You are already seated. Cannot change seats once seated.")
       ELSE
         /\ seats' = [seats EXCEPT ![seatId] =
                        [id |-> s, isConnected |-> TRUE]]
         /\ \E r \in assignRoleToPlayer(config, rolePool,
                       [players EXCEPT ![s].seat = seatId,
                                       ![s].isConnected = TRUE],
                       roles, s) :
              /\ rolePool' = r.rolePool
              /\ players' = r.players
              /\ roles' = r.roles
              /\ reply' = [Answer("chooseSeat", TRUE, "Seated successfully!")
                             EXCEPT !.role = r.role]
         /\ UNCHANGED <<games, hostId, config, phase, NightVars, connected>>

\* the record fillEmptySeatsWithFakePlayers creates; seat.player is the
\* same object, so the seat shows no isConnected flag
FakePlayer(seatId) ==
  [seat |-> seatId, role |-> NoRole, isHost |-> FALSE, sessionId |-> None,
   isConnected |-> FALSE, isFake |-> TRUE]

\* fillEmptySeatsWithFakePlayers(game) from seat k on, n stand-ins made so
\* far: the rooms it can leave (st holds seats, players, roles, rolePool)
RECURSIVE FillFrom(_, _, _, _)
FillFrom(cfg, k, n, st) ==
  IF k \notin DOMAIN st.seats
    THEN {st}
    ELSE IF st.seats[k].id # None \/ n >= NumFakeNames
      THEN FillFrom(cfg, k + 1, n, st)
      ELSE UNION {
        FillFrom(cfg, k + 1, n + 1,
                 [seats |-> [st.seats EXCEPT ![k] =
                               [id |-> FakeId(k), isConnected |-> FALSE]],
                  players |-> r.players,
                  roles |-> r.roles,
                  rolePool |-> r.rolePool]) :
        r \in assignRoleToPlayer(cfg, st.rolePool,
                                 Put(st.players, FakeId(k), FakePlayer(k)),
                                 st.roles, FakeId(k)) }

fillEmptySeatsWithFakePlayers(cfg, ss, ps, rs, pool) ==
  FillFrom(cfg, 1, 0,
           [seats |-> ss, players |-> ps, roles |-> rs, rolePool |-> pool])

\* startNightPhase(roomId): the flags are reset, lovers becomes [] if unset,
\* and the 3000 ms continuation that opens the first sub-phase is scheduled
startNightPhase ==
  /\ nightPhaseActions' = FreshNightPhaseActions
  /\ lovers' = lovers
  /\ timers' = timers (+) SetToBag({"nightIntro"})
  /\ started' = {}
  /\ UNCHANGED orphanFatherMap

\* startBeforeNightStartPhase(roomId) on the participants ps
startBeforeNightStartPhase(ps) ==
  LET orphans == {id \in DOMAIN ps : ps[id].role = "orphan"}
      realOrphans == {id \in orphans : ~ps[id].isFake}
  IN  IF orphans = {}
        THEN startNightPhase
        ELSE /\ orphanFatherMap' =
                  IF Room \in DOMAIN orphanFatherMap
                    THEN orphanFatherMap
                    ELSE Put(orphanFatherMap, Room, Empty)
             /\ timers' = IF realOrphans # {}
                            THEN timers
                            ELSE timers (+) SetToBag({"orphanAutoClose"})
             /\ UNCHANGED <<nightPhaseActions, lovers, started>>

\* socket.on('startGame', (roomId, cb))
StartGame(s) ==
  /\ s \in connected
  /\ IF Room \notin games
       THEN Reject("startGame", "Game not found")
       ELSE IF s # hostId
         THEN Reject("startGame", "Only host can start the game")
       ELSE IF FilledSeats(seats) < 1
         THEN Reject("startGame", "At least 1 player is required to start")
       ELSE
         \E st \in fillEmptySeatsWithFakePlayers(config, seats, players,
                                                 roles, rolePool) :
           /\ seats' = st.seats
           /\ players' = st.players
           /\ roles' = st.roles
           /\ rolePool' = st.rolePool
           /\ IF DOMAIN st.roles = {}
                THEN /\ reply' = Answer("startGame", FALSE,
                                        "Roles not assigned yet")
                     /\ UNCHANGED <<phase, NightVars>>
                ELSE /\ BagCardinality(timers) < MaxTimers
                     /\ phase' = "night"
                     /\ nightActions' = FreshNightActions
                     /\ dayResults' = FreshDayResults
                     /\ startBeforeNightStartPhase(st.players)
                     /\ chose' = {}
                     /\ reply' = Answer("startGame", TRUE, "Game started!")
           /\ UNCHANGED <<games, hostId, config, connected>>

\* the orders in which Object.keys(game.players) can list the ids of set S
\* (insertion order, which the model does not record)
Orders(S) ==
  {f \in [1..Cardinality(S) -> S] :
     \A i, j \in 1..Cardinality(S) : f[i] = f[j] => i = j}

\* assignRoleToPlayer for the ids of order from its i-th on
RECURSIVE AssignAll(_, _, _, _)
AssignAll(cfg, order, i, st) ==
  IF i > Len(order)
    THEN {st}
    ELSE UNION {
      AssignAll(cfg, order, i + 1,
                [players |-> r.players, roles |-> r.roles,
                 rolePool |-> r.rolePool]) :
      r \in assignRoleToPlayer(cfg, st.rolePool, st.players, st.roles,
                               order[i]) }

\* socket.on('shuffleRoles', ({ roomId }, cb))
ShuffleRoles(s) ==
  /\ s \in connected
  /\ IF Room \notin games \/ s # hostId
       THEN Reject("shuffleRoles", "Only host can shuffle roles")
       ELSE
         /\ phase' = "lobby"
         /\ nightActions' = FreshNightActions
         /\ dayResults' = EmptyDayResults
         /\ \E order \in Orders({id \in DOMAIN players :
                                   players[id].seat # None}) :
              \E st \in AssignAll(config, order, 1,
                                  [players |-> players, roles |-> Empty,
                                   rolePool |-> NullPool]) :
                /\ players' = st.players
                /\ roles' = st.roles
                /\ rolePool' = st.rolePool
         /\ reply' = Answer("shuffleRoles", TRUE,
                            "Roles shuffled successfully!")
         /\ UNCHANGED <<games, hostId, config, seats, nightPhaseActions,
                        lovers, orphanFatherMap, timers, connected,
                        started, chose>>

\* mutant: the seat of a lost connection is freed
Disconnect_FreesSeat(s) ==
  /\ s \in connected
  /\ connected' = connected \ {s}
  /\ reply' = Answer("disconnect", TRUE, "")
  /\ IF Room \in games /\ s \in DOMAIN players
       THEN IF s = hostId
              THEN /\ games' = games \ {Room}
                   /\ seats' = [k \in DOMAIN seats |-> EmptySeat]
                   /\ players' = Empty
                   /\ roles' = Empty
                   /\ rolePool' = NullPool
                   /\ phase' = "lobby"
                   /\ nightActions' = NoNightActions
                   /\ nightPhaseActions' = NoNightPhaseActions
                   /\ lovers' = <<>>
                   /\ dayResults' = NoDayResults
                   /\ started' = {}
                   /\ chose' = {}
                   /\ UNCHANGED <<orphanFatherMap, timers>>
              ELSE /\ seats' = IF SeatOf(seats, s) # None
                                 THEN [seats EXCEPT
                                         ![SeatOf(seats, s)] = EmptySeat]
                                 ELSE seats
                   /\ players' = [players EXCEPT ![s].isConnected = FALSE]
                   /\ UNCHANGED <<games, roles, rolePool, phase, NightVars>>
       ELSE UNCHANGED <<games, seats, players, roles, rolePool, phase,
                        NightVars>>
  /\ UNCHANGED <<hostId, config>>

\* socket.on('disconnect'): the connection of socket s is lost.  When the
\* host's participant record is found the room is deleted from games: its
\* fields are gone with it (they are left at their creation values).
Disconnect(s) ==
  /\ s \in connected
  /\ connected' = connected \ {s}
  /\ reply' = Answer("disconnect", TRUE, "")
  /\ IF Room \in games /\ s \in DOMAIN players
       THEN IF s = hostId
              THEN /\ games' = games \ {Room}
                   /\ seats' = [k \in DOMAIN seats |-> EmptySeat]
                   /\ players' = Empty
                   /\ roles' = Empty
                   /\ rolePool' = NullPool
                   /\ phase' = "lobby"
                   /\ nightActions' = NoNightActions
                   /\ nightPhaseActions' = NoNightPhaseActions
                   /\ lovers' = <<>>
                   /\ dayResults' = NoDayResults
                   /\ started' = {}
                   /\ chose' = {}
                   /\ UNCHANGED <<orphanFatherMap, timers>>
              ELSE /\ seats' = IF SeatOf(seats, s) # None
                                 THEN [seats EXCEPT
                                         ![SeatOf(seats, s)].isConnected =
                                           FALSE]
                                 ELSE seats
                   /\ players' = [players EXCEPT ![s].isConnected = FALSE]
                   /\ UNCHANGED <<games, roles, rolePool, phase, NightVars>>
       ELSE UNCHANGED <<games, seats, players, roles, rolePool, phase,
                        NightVars>>
  /\ UNCHANGED <<hostId, config>>

Next ==
  \/ \E s \in Sockets : \E sessionId \in SessionIds \cup {None} :
       JoinGame(s, sessionId)
  \/ \E s \in Sockets : \E seatId \in 1..(config.totalPlayers + 1) :
       ChooseSeat(s, seatId)
  \/ \E s \in Sockets : StartGame(s)
  \/ \E s \in Sockets : ShuffleRoles(s)
  \/ \E s \in Sockets : Disconnect(s)

Spec == Init /\ [][Next]_vars

(***************************************************************************)
(* The night: role actions.  A handler reads game.players[socket.id].role  *)
(* without looking whether the record exists, and writes game.nightActions *)
(* and game.nightPhaseActions without looking whether they are set: where  *)
(* they are missing the handler ends in an uncaught TypeError.             *)
(***************************************************************************)
RoomFrame ==
  UNCHANGED <<games, hostId, config, seats, players, roles, rolePool,
              phase, dayResults, orphanFatherMap, connected, started,
              chose>>

\* the participants whose record carries role r, and the real ones of them
Holders(ps, r) == {id \in DOMAIN ps : ps[id].role = r}
RealHolders(ps, r) == {id \in Holders(ps, r) : ~ps[id].isFake}

\* setTimeout(f, ms): continuation t is pending as well
Schedule(t) == timers (+) SetToBag({t})
CanSchedule == BagCardinality(timers) < MaxNightTimers

\* the handler ends in an uncaught TypeError before it has written anything
Throw(event) ==
  /\ reply' = Answer(event, FALSE, "TypeError")
  /\ UNCHANGED <<games, hostId, config, seats, players, roles, rolePool,
                 phase, NightVars, connected>>

\* mutant: the sender's role is not compared with the action's role
RoleAction_AnyRole(s, event, role, body) ==
  /\ s \in connected
  /\ IF Room \notin games
       THEN Reject(event, "Invalid action")
       ELSE IF s \notin DOMAIN players
         THEN Throw(event)
       ELSE body

\* if (!game || game.players[socket.id].role !== role) return cb(failure)
RoleAction(s, event, role, body) ==
  /\ s \in connected
  /\ IF Room \notin games
       THEN Reject(event, "Invalid action")
       ELSE IF s \notin DOMAIN players
         THEN Throw(event)
       ELSE IF players[s].role # role
         THEN Reject(event, "Invalid action")
       ELSE body

\* game.nightPhaseActions[flag] = true, then cb(success) and setTimeout(t);
\* the night-action bag has been written as na before
CompleteAndSchedule(event, message, na, flag, t) ==
  /\ nightActions' = na
  /\ IF nightPhaseActions.defined
       THEN /\ CanSchedule
            /\ nightPhaseActions' = [nightPhaseActions EXCEPT ![flag] = TRUE]
            /\ timers' = Schedule(t)
            /\ reply' = Answer(event, TRUE, message)
       ELSE /\ reply' = Answer(event, FALSE, "TypeError")
            /\ UNCHANGED <<nightPhaseActions, timers>>

\* socket.on('cupidSelect', ({ roomId, targetIds }, cb))
CupidSelect(s, targetIds) ==
  RoleAction(s, "cupidSelect", "cupid",
    IF Len(targetIds) # 2
      THEN Reject("cupidSelect", "Must select exactly 2 players")
    ELSE IF targetIds[1] = targetIds[2]
      THEN Reject("cupidSelect", "Cannot select the same player twice")
    ELSE /\ lovers' = targetIds
         /\ CompleteAndSchedule("cupidSelect", "Lovers selected",
                                nightActions, "cupid", "loversReveal")
         /\ RoomFrame)

\* socket.on('guardProtect', ({ roomId, targetId }, cb))
GuardProtect(s, targetId) ==
  RoleAction(s, "guardProtect", "guard",
    IF ~nightActions.defined
      THEN Throw("guardProtect")
      ELSE /\ CompleteAndSchedule("guardProtect", "Player protected",
                  [nightActions EXCEPT !.guardProtect = targetId],
                  "guard", "checkNightPhaseComplete")
           /\ UNCHANGED lovers
           /\ RoomFrame)

\* socket.on('werewolfKill', ({ roomId, targetId }, cb))
WerewolfKill(s, targetId) ==
  RoleAction(s, "werewolfKill", "werewolf",
    IF ~nightActions.defined
      THEN Throw("werewolfKill")
      ELSE /\ CompleteAndSchedule("werewolfKill", "Target selected",
                  [nightActions EXCEPT !.werewolfKill = targetId],
                  "werewolf", "checkNightPhaseComplete")
           /\ UNCHANGED lovers
           /\ RoomFrame)

\* socket.on('witchSave', ({ roomId }, cb))
WitchSave(s) ==
  RoleAction(s, "witchSave", "witch",
    IF ~nightActions.defined
      THEN Throw("witchSave")
    ELSE IF nightActions.werewolfKill = s
      THEN Reject("witchSave", "You cannot save yourself!")
    ELSE /\ CanSchedule
         /\ nightActions' = [nightActions EXCEPT !.witchSave = TRUE]
         /\ timers' = Schedule("witchSaveClose")
         /\ reply' = Answer("witchSave", TRUE, "Player saved")
         /\ UNCHANGED <<nightPhaseActions, lovers>>
         /\ RoomFrame)

\* socket.on('witchPoison', ({ roomId, targetId }, cb))
WitchPoison(s, targetId) ==
  RoleAction(s, "witchPoison", "witch",
    IF ~nightActions.defined
      THEN Throw("witchPoison")
      ELSE /\ CanSchedule
           /\ nightActions' = [nightActions EXCEPT !.witchPoison = targetId]
           /\ timers' = Schedule("witchPoisonClose")
           /\ reply' = Answer("witchPoison", TRUE, "Player poisoned")
           /\ UNCHANGED <<nightPhaseActions, lovers>>
           /\ RoomFrame)

\* the handlers that only set their role's flag and schedule a continuation:
\* witchComplete, witchSkip, seerComplete, hunterComplete
FlagOnly(s, event, role, message, t) ==
  RoleAction(s, event, role,
    IF ~nightPhaseActions.defined
      THEN Throw(event)
      ELSE /\ CompleteAndSchedule(event, message, nightActions, role, t)
           /\ UNCHANGED lovers
           /\ RoomFrame)

\* socket.on('witchComplete', ({ roomId }, cb))
WitchComplete(s) ==
  FlagOnly(s, "witchComplete", "witch", "", "checkNightPhaseComplete")

\* socket.on('witchSkip', ({ roomId }, cb))
WitchSkip(s) ==
  FlagOnly(s, "witchSkip", "witch", "Witch skipped their turn",
           "witchSkipClose")

\* mutant: the check completes the seer's sub-phase
SeerCheck_Completes(s, targetId) ==
  RoleAction(s, "seerCheck", "seer",
    IF targetId \notin DOMAIN players \/ ~nightActions.defined
      THEN Throw("seerCheck")
      ELSE /\ CompleteAndSchedule("seerCheck", "Check complete",
                  [nightActions EXCEPT
                     !.seerCheck = targetId,
                     !.seerResult = IF players[targetId].role = "werewolf"
                                      THEN "werewolf" ELSE "good man"],
                  "seer", "checkNightPhaseComplete")
           /\ UNCHANGED lovers
           /\ RoomFrame)

\* socket.on('seerCheck', ({ roomId, targetId }, cb))
SeerCheck(s, targetId) ==
  RoleAction(s, "seerCheck", "seer",
    IF targetId \notin DOMAIN players \/ ~nightActions.defined
      THEN Throw("seerCheck")
      ELSE /\ nightActions' =
                [nightActions EXCEPT
                   !.seerCheck = targetId,
                   !.seerResult = IF players[targetId].role = "werewolf"
                                    THEN "werewolf" ELSE "good man"]
           /\ reply' = Answer("seerCheck", TRUE, "Check complete")
           /\ UNCHANGED <<nightPhaseActions, lovers, timers>>
           /\ RoomFrame)

\* socket.on('seerComplete', ({ roomId }, cb))
SeerComplete(s) ==
  FlagOnly(s, "seerComplete", "seer", "", "checkNightPhaseComplete")

\* socket.on('hunterComplete', ({ roomId }, cb))
HunterComplete(s) ==
  FlagOnly(s, "hunterComplete", "hunter", "", "checkNightPhaseComplete")

(***************************************************************************)
(* The night: the phase functions and the delayed continuations.  A phase  *)
(* function is given the participants, the completion flags and the        *)
(* pending continuations, and returns the flags and continuations it       *)
(* leaves and the notification it sends (out).                             *)
(***************************************************************************)
PhaseResult(npa, tm, out) == [npa |-> npa, timers |-> tm, out |-> out]

\* a sub-phase of role r: the UI goes to the real holders; with stand-ins
\* only the flag is set and continuation auto follows; with no holder the
\* flag is set and continuation absent follows
SubPhase(ps, npa, tm, r, auto, absent) ==
  IF Holders(ps, r) # {}
    THEN IF RealHolders(ps, r) # {}
           THEN PhaseResult(npa, tm, r \o "PhaseUI")
           ELSE PhaseResult([npa EXCEPT ![r] = TRUE],
                            tm (+) SetToBag({auto}), r \o "PhaseAudio")
    ELSE PhaseResult([npa EXCEPT ![r] = TRUE],
                     tm (+) SetToBag({absent}), "phaseComplete")

startCupidPhase(ps, npa, tm) ==
  SubPhase(ps, npa, tm, "cupid", "startWerewolfPhase", "startWerewolfPhase")

startGuardPhase(ps, npa, tm) ==
  SubPhase(ps, npa, tm, "guard", "startWerewolfPhase", "startWerewolfPhase")

\* the UI goes to every werewolf, stand-ins included
startWerewolfPhase(ps, npa, tm) ==
  IF Holders(ps, "werewolf") # {}
    THEN PhaseResult(npa, tm, "werewolfPhaseUI")
    ELSE PhaseResult([npa EXCEPT !.werewolf = TRUE],
                     tm (+) SetToBag({"checkNightPhaseComplete"}),
                     "phaseComplete")

startWitchPhase(ps, npa, tm) ==
  SubPhase(ps, npa, tm, "witch", "witchAutoClose", "checkNightPhaseComplete")

startSeerPhase(ps, npa, tm) ==
  SubPhase(ps, npa, tm, "seer", "seerAutoClose", "checkNightPhaseComplete")

startHunterCheckPhase(ps, npa, tm) ==
  SubPhase(ps, npa, tm, "hunter", "hunterAutoClose",
           "checkNightPhaseComplete")

\* the roles the convergence step looks at, in its order
getSpecialCharactersInGame(ps) ==
  (IF Holders(ps, "cupid") # {} THEN <<"cupid">> ELSE <<>>)
    \o (IF Holders(ps, "guard") # {} THEN <<"guard">> ELSE <<>>)
    \o <<"werewolf">>
    \o (IF Holders(ps, "witch") # {} THEN <<"witch">> ELSE <<>>)
    \o (IF Holders(ps, "seer") # {} THEN <<"seer">> ELSE <<>>)
    \o (IF Holders(ps, "hunter") # {} THEN <<"hunter">> ELSE <<>>)

\* mutant: the hunter is looked at before the seer
getNextCharacterToAct_HunterFirst(npa, specialCharacters) ==
  IF Includes(specialCharacters, "witch") /\ ~npa.witch THEN "witch"
  ELSE IF Includes(specialCharacters, "hunter") /\ ~npa.hunter THEN "hunter"
  ELSE IF Includes(specialCharacters, "seer") /\ ~npa.seer THEN "seer"
  ELSE "none"

\* the first of witch, seer, hunter that is listed and not complete, or None
getNextCharacterToAct(npa, specialCharacters) ==
  IF Includes(specialCharacters, "witch") /\ ~npa.witch THEN "witch"
  ELSE IF Includes(specialCharacters, "seer") /\ ~npa.seer THEN "seer"
  ELSE IF Includes(specialCharacters, "hunter") /\ ~npa.hunter THEN "hunter"
  ELSE "none"

checkNightPhaseComplete(ps, npa, tm) ==
  IF ~npa.werewolf
    THEN PhaseResult(npa, tm, "none")
    ELSE LET specialCharacters == getSpecialCharactersInGame(ps)
             allCompleted ==
               \A i \in DOMAIN specialCharacters : npa[specialCharacters[i]]
             nextCharacter == getNextCharacterToAct(npa, specialCharacters)
         IN  IF allCompleted
               THEN PhaseResult(npa,
                      tm (+) SetToBag({"startDetectorElectionPhase"}),
                      "none")
               ELSE IF nextCharacter # "none"
                 THEN PhaseResult(npa,
                        tm (+) SetToBag({"startCharacterPhase_"
                                           \o nextCharacter}),
                        "none")
                 ELSE PhaseResult(npa, tm, "none")

\* the continuations setTimeout can hold
TimerNames ==
  {"nightIntro", "orphanAutoClose", "startNightPhase", "loversReveal",
   "loversClose", "afterLovers", "startWerewolfPhase",
   "checkNightPhaseComplete", "witchSaveClose", "witchPoisonClose",
   "witchSkipClose", "startSeerPhase", "witchAutoClose", "seerAutoClose",
   "hunterAutoClose", "startCharacterPhase_witch",
   "startCharacterPhase_seer", "startCharacterPhase_hunter",
   "startDetectorElectionPhase"}

\* what continuation t does when it fires with tm left pending.  The
\* closures of cupidSelect, witchSave, witchPoison, witchSkip, the orphan
\* auto-close and the stand-in sub-phases do not look whether the room is
\* still registered before they notify and schedule; every function called
\* with roomId returns at once when it is not.
Continuation(t, ps, npa, tm) ==
  LET gone == Room \notin games
      after(next, out) == PhaseResult(npa, tm (+) SetToBag({next}), out)
      idle == PhaseResult(npa, tm, "none")
  IN  CASE t = "nightIntro" ->
             IF gone THEN idle
             ELSE IF Holders(ps, "cupid") # {}
               THEN startCupidPhase(ps, npa, tm)
               ELSE startWerewolfPhase(ps, [npa EXCEPT !.cupid = TRUE], tm)
        [] t = "orphanAutoClose" -> after("startNightPhase", "phaseComplete")
        [] t = "startNightPhase" ->
             IF gone THEN idle
             ELSE PhaseResult(FreshNightPhaseActions,
                              tm (+) SetToBag({"nightIntro"}),
                              "nightPhaseStarted")
        [] t = "loversReveal" -> after("loversClose", "loversRevealPhase")
        [] t = "loversClose" -> after("afterLovers", "phaseComplete")
        [] t = "afterLovers" ->
             IF gone THEN idle
             ELSE IF Holders(ps, "guard") # {}
               THEN startGuardPhase(ps, npa, tm)
               ELSE startWerewolfPhase(ps, [npa EXCEPT !.guard = TRUE], tm)
        [] t = "startWerewolfPhase" ->
             IF gone THEN idle ELSE startWerewolfPhase(ps, npa, tm)
        [] t = "checkNightPhaseComplete" ->
             IF gone THEN idle ELSE checkNightPhaseComplete(ps, npa, tm)
        [] t = "witchSaveClose" ->
             PhaseResult(IF gone THEN npa ELSE [npa EXCEPT !.witch = TRUE],
                         tm (+) SetToBag({"startSeerPhase"}),
                         "phaseComplete")
        [] t = "witchPoisonClose" ->
             PhaseResult(IF gone THEN npa ELSE [npa EXCEPT !.witch = TRUE],
                         tm (+) SetToBag({"checkNightPhaseComplete"}),
                         "phaseComplete")
        [] t = "witchSkipClose" ->
             after("checkNightPhaseComplete", "phaseComplete")
        [] t = "startSeerPhase" ->
             IF gone THEN idle ELSE startSeerPhase(ps, npa, tm)
        [] t \in {"witchAutoClose", "seerAutoClose", "hunterAutoClose"} ->
             after("checkNightPhaseComplete", "phaseComplete")
        [] t = "startCharacterPhase_witch" ->
             IF gone THEN idle ELSE startWitchPhase(ps, npa, tm)
        [] t = "startCharacterPhase_seer" ->
             IF gone THEN idle ELSE startSeerPhase(ps, npa, tm)
        [] t = "startCharacterPhase_hunter" ->
             IF gone THEN idle ELSE startHunterCheckPhase(ps, npa, tm)
        [] t = "startDetectorElectionPhase" ->
             IF gone THEN idle
             ELSE after("startDayPhase", "detectorElectionPhase")

\* the role whose sub-phase a notification opens: the UI of its real
\* holders, or the audio cue played for its stand-ins
StartedBy(out) ==
  {r \in {"cupid", "guard", "werewolf", "witch", "seer", "hunter"} :
     out \in {r \o "PhaseUI", r \o "PhaseAudio"}}

\* a pending continuation fires.  witchSaveClose and witchPoisonClose write
\* game.nightPhaseActions.witch and end in a TypeError when no night has
\* set the flags up.
FireTimer(t) ==
  /\ BagIn(t, timers)
  /\ IF t \in {"witchSaveClose", "witchPoisonClose"} /\ Room \in games
        /\ ~nightPhaseActions.defined
       THEN /\ timers' = timers (-) SetToBag({t})
            /\ reply' = Answer(t, FALSE, "TypeError")
            /\ UNCHANGED <<nightPhaseActions, started>>
       ELSE LET r == Continuation(t, players, nightPhaseActions,
                                  timers (-) SetToBag({t}))
            IN  /\ nightPhaseActions' = r.npa
                /\ timers' = r.timers
                /\ started' = IF r.out = "nightPhaseStarted"
                                THEN {}
                                ELSE started \cup StartedBy(r.out)
                /\ reply' = Answer(r.out, TRUE, t)
  /\ UNCHANGED <<nightActions, lovers>>
  /\ UNCHANGED <<games, hostId, config, seats, players, roles, rolePool,
                 phase, dayResults, orphanFatherMap, connected, chose>>

(***************************************************************************)
(* SpecNight: the night of a started game.  Init is the room startGame     *)
(* leaves when no orphan is seated: every seat is taken by the socket of   *)
(* its number or by a stand-in, the roles are drawn, the flags are reset   *)
(* and the continuation of startNightPhase is pending.  The participants   *)
(* that hold a role send its actions at any time and in any number, and  *)
(* continuations fire in any order.                                        *)
(***************************************************************************)
\* the roles of seats 1, 2, 3 in the rooms of SpecNight
NightRoleLists ==
  { <<"werewolf", "seer", "hunter">>,
    <<"cupid", "guard", "werewolf">>,
    <<"cupid", "guard", "villager">>,
    <<"werewolf", "witch", "seer">> }

\* the seats that hold a stand-in: none, or one of them
FakeMasks(n) == {{}} \cup {{k} : k \in 1..n}

NightConfig(rl) ==
  [totalPlayers |-> Len(rl),
   numWerewolves |-> CountIn(rl, "werewolf"),
   numOrphans |-> CountIn(rl, "orphan"),
   numVillagers |-> CountIn(rl, "villager"),
   specialRoles |-> SelectSeq(rl, LAMBDA r : r \in SpecialRoleNames)]

NightId(k, fakes) == IF k \in fakes THEN FakeId(k) ELSE k

NightPlayer(k, fakes, role) ==
  IF k \in fakes
    THEN [FakePlayer(k) EXCEPT !.role = role]
    ELSE [NewPlayer(k, k, 1) EXCEPT !.seat = k, !.role = role]

NightSockets == 1..MaxNightSockets

\* the room startGame leaves with the roles rl and the stand-ins fakes
InitNightOf(rl, fakes) ==
    LET ids == {NightId(k, fakes) : k \in 1..Len(rl)}
        seatOf(id) == IF id < 0 THEN 0 - id ELSE id
    IN  /\ games = {Room}
        /\ hostId = 1
        /\ config = NightConfig(rl)
        /\ seats = [k \in 1..Len(rl) |->
                      [id |-> NightId(k, fakes), isConnected |-> k \notin fakes]]
        /\ players = [id \in ids |-> NightPlayer(seatOf(id), fakes,
                                                 rl[seatOf(id)])]
        /\ roles = [id \in ids |-> rl[seatOf(id)]]
        /\ rolePool = <<>>
        /\ phase = "night"
        /\ nightActions = FreshNightActions
        /\ nightPhaseActions = FreshNightPhaseActions
        /\ lovers = <<>>
        /\ dayResults = FreshDayResults
        /\ orphanFatherMap = Empty
        /\ timers = SetToBag({"nightIntro"})
        /\ connected = NightSockets
        /\ started = {}
        /\ chose = {}
        /\ reply = Answer("startGame", TRUE, "Game started!")

InitNight ==
  \E rl \in NightRoleLists : \E fakes \in FakeMasks(Len(rl)) :
    InitNightOf(rl, fakes)

\* the payloads of cupidSelect: no list, or two identities
CupidPayloads == {<<>>} \cup ((DOMAIN players) \X (DOMAIN players))

\* the real holders of a role send its actions
NextNight ==
  \/ \E s \in RealHolders(players, "cupid") :
       \E targetIds \in CupidPayloads : CupidSelect(s, targetIds)
  \/ \E s \in RealHolders(players, "guard") :
       \E targetId \in DOMAIN players : GuardProtect(s, targetId)
  \/ \E s \in RealHolders(players, "werewolf") :
       \E targetId \in DOMAIN players : WerewolfKill(s, targetId)
  \/ \E s \in RealHolders(players, "witch") : WitchSave(s)
  \/ \E s \in RealHolders(players, "witch") :
       \E targetId \in DOMAIN players : WitchPoison(s, targetId)
  \/ \E s \in RealHolders(players, "witch") : WitchComplete(s)
  \/ \E s \in RealHolders(players, "witch") : WitchSkip(s)
  \/ \E s \in RealHolders(players, "seer") :
       \E targetId \in DOMAIN players : SeerCheck(s, targetId)
  \/ \E s \in RealHolders(players, "seer") : SeerComplete(s)
  \/ \E s \in RealHolders(players, "hunter") : HunterComplete(s)
  \/ \E t \in TimerNames : FireTimer(t)
  \/ FireStartDayPhase

SpecNight == InitNight /\ [][NextNight]_vars

(***************************************************************************)
(* SpecRejoin: the night of the room with a cupid and a werewolf, both     *)
(* real, in which the connection of a participant other than the host *)
(* may be lost and a connection that is not a participant may send         *)
(* joinGame with the session id of a participant whose connection is lost. *)
(***************************************************************************)
InitRejoin == InitNightOf(<<"cupid", "werewolf">>, {})

NextRejoin ==
  \/ \E s \in RealHolders(players, "cupid") :
       \E targetIds \in CupidPayloads : CupidSelect(s, targetIds)
  \/ \E s \in RealHolders(players, "werewolf") :
       \E targetId \in DOMAIN players : WerewolfKill(s, targetId)
  \/ \E s \in DOMAIN players \ {hostId} : Disconnect(s)
  \/ \E s \in NightSockets \ DOMAIN players :
       \E old \in DOMAIN players \ connected :
         JoinGame(s, players[old].sessionId)
  \/ \E t \in TimerNames : FireTimer(t)
  \/ FireStartDayPhase

SpecRejoin == InitRejoin /\ [][NextRejoin]_vars

(***************************************************************************)
(* orphanManager (src/orphanManager.js): the map room -> (orphan ->       *)
(* father) and the functions on it, given the map m.                       *)
(***************************************************************************)
\* initializeGame(gameId)
initializeGame(m, g) == IF g \in DOMAIN m THEN m ELSE Put(m, g, Empty)

\* setFather(gameId, orphanPlayerId, fatherPlayerId)
setFather(m, g, o, f) ==
  LET m1 == initializeGame(m, g) IN [m1 EXCEPT ![g] = Put(m1[g], o, f)]

\* clearGame(gameId): delete this.orphanFatherMap[gameId]
clearGame(m, g) == Del(m, g)

\* removeOrphan(gameId, orphanPlayerId)
removeOrphan(m, g, o) ==
  IF g \in DOMAIN m THEN [m EXCEPT ![g] = Del(m[g], o)] ELSE m

\* getAllPairs(gameId): this.orphanFatherMap[gameId] || {}
getAllPairs(m, g) == IF g \in DOMAIN m THEN m[g] ELSE Empty

\* mutant: any entry of the room counts, whoever it is for
hasChosenFather_AnyEntry(m, g, o) ==
  g \in DOMAIN m /\ DOMAIN m[g] # {}

\* hasChosenFather(gameId, orphanPlayerId): !!map[gameId]?.[orphanPlayerId]
hasChosenFather(m, g, o) ==
  /\ g \in DOMAIN m
  /\ o \in DOMAIN m[g]
  /\ m[g][o] # None

\* allOrphansChosen(gameId, orphanPlayerIds), ids the elements of the array
allOrphansChosen(m, g, ids) ==
  IF ids = {} THEN TRUE ELSE \A o \in ids : hasChosenFather(m, g, o)

\* mutant: the walk stops without adding the last father
LastFather_Dropped(mapData, nodes, currentId) == nodes

\* lines 111-121: the father of the last node is added when the walk has
\* left the dependents
LastFather(mapData, nodes, currentId) ==
  IF currentId # None /\ currentId \notin DOMAIN mapData /\ Len(nodes) > 0
    THEN LET lastNode == nodes[Len(nodes)]
         IN  IF lastNode \in DOMAIN mapData
               THEN Append(nodes, mapData[lastNode])
               ELSE nodes
    ELSE nodes

\* pathSet.has(currentId)
SeenOnPath(pathSet, currentId) ==
  currentId \in pathSet

\* lines 88-108: the while loop from currentId on, with the nodes pushed
\* and the path so far; a node of mapData is its id (name and seat are
\* those of the id's participant)
RECURSIVE Walk(_, _, _, _)
Walk(mapData, currentId, nodes, pathSet) ==
  IF currentId = None \/ currentId \notin DOMAIN mapData
    THEN [nodes |-> nodes, hasLoop |-> FALSE, currentId |-> currentId]
  ELSE IF SeenOnPath(pathSet, currentId)
    THEN [nodes |-> nodes, hasLoop |-> TRUE, currentId |-> currentId]
  ELSE Walk(mapData, mapData[currentId], Append(nodes, currentId),
            pathSet \cup {currentId})

\* mutant: a walk that stops at a repeated node is not marked
ChainFrom_LoopUnmarked(mapData, orphanId) ==
  LET w == Walk(mapData, orphanId, <<>>, {})
  IN  [nodes |-> LastFather(mapData, w.nodes, w.currentId),
       hasLoop |-> FALSE,
       walked |-> {w.nodes[i] : i \in DOMAIN w.nodes}]

\* the chain built from orphanId
ChainFrom(mapData, orphanId) ==
  LET w == Walk(mapData, orphanId, <<>>, {})
  IN  [nodes |-> LastFather(mapData, w.nodes, w.currentId),
       hasLoop |-> w.hasLoop,
       walked |-> {w.nodes[i] : i \in DOMAIN w.nodes}]

\* mutant: a chain that ends in a loop is not returned
RECURSIVE ChainsFrom_LoopsDropped(_, _, _, _, _)
ChainsFrom_LoopsDropped(mapData, order, i, visited, chains) ==
  IF i > Len(order)
    THEN chains
  ELSE IF order[i] \in visited
    THEN ChainsFrom_LoopsDropped(mapData, order, i + 1, visited, chains)
  ELSE LET c == ChainFrom(mapData, order[i])
       IN  ChainsFrom_LoopsDropped(mapData, order, i + 1,
             visited \cup c.walked,
             IF Len(c.nodes) > 0 /\ ~c.hasLoop
               THEN Append(chains, [nodes |-> c.nodes, hasLoop |-> c.hasLoop])
               ELSE chains)

\* lines 75-134: the for-in loop over the keys of mapData in the order
\* given, from its i-th key on, with the ids visited and the chains so far
RECURSIVE ChainsFrom(_, _, _, _, _)
ChainsFrom(mapData, order, i, visited, chains) ==
  IF i > Len(order)
    THEN chains
  ELSE IF order[i] \in visited
    THEN ChainsFrom(mapData, order, i + 1, visited, chains)
  ELSE LET c == ChainFrom(mapData, order[i])
       IN  ChainsFrom(mapData, order, i + 1, visited \cup c.walked,
             IF Len(c.nodes) > 0
               THEN Append(chains, [nodes |-> c.nodes, hasLoop |-> c.hasLoop])
               ELSE chains)

\* buildOrphanChains(gameId, mapData); order is the order of the keys
buildOrphanChains(mapData, order) == ChainsFrom(mapData, order, 1, {}, <<>>)

(***************************************************************************)
(* SpecOrphan: the functions of orphanManager called in any order on two   *)
(* rooms, and getOrphanMap on the first of them.  The participants of the  *)
(* room are 1..MaxOrphanIds; a father may also be an identity that is not  *)
(* a participant of the room.  In the other room one identity chooses.     *)
(***************************************************************************)
OrphanRooms == {Room, "OTHER"}
OrphanIds == 1..MaxOrphanIds
FatherIds == 1..(MaxOrphanIds + 1)
OrphansOf(g) == IF g = Room THEN OrphanIds ELSE {MaxOrphanIds}

InitOrphan ==
  /\ games = {Room}
  /\ hostId = 1
  /\ config = [totalPlayers |-> MaxOrphanIds, numWerewolves |-> 0,
               numOrphans |-> MaxOrphanIds, numVillagers |-> 0,
               specialRoles |-> <<>>]
  /\ seats = [k \in OrphanIds |-> [id |-> k, isConnected |-> TRUE]]
  /\ players = [id \in OrphanIds |->
                  [NewPlayer(id, id, 1) EXCEPT !.seat = id,
                                               !.role = "orphan"]]
  /\ roles = [id \in OrphanIds |-> "orphan"]
  /\ rolePool = <<>>
  /\ phase = "night"
  /\ nightActions = FreshNightActions
  /\ nightPhaseActions = NoNightPhaseActions
  /\ lovers = <<>>
  /\ dayResults = FreshDayResults
  /\ orphanFatherMap = Put(Empty, Room, Empty)
  /\ timers = EmptyBag
  /\ connected = OrphanIds
  /\ started = {}
  /\ chose = {}
  /\ reply = Answer("startGame", TRUE, "Game started!")

OrphanFrame ==
  UNCHANGED <<games, hostId, config, seats, players, roles, rolePool, phase,
              nightActions, nightPhaseActions, lovers, dayResults, timers,
              connected, started, chose>>

SetFather(g, o, f) ==
  /\ orphanFatherMap' = setFather(orphanFatherMap, g, o, f)
  /\ reply' = Answer("setFather", TRUE, "")
  /\ OrphanFrame

RemoveOrphan(g, o) ==
  /\ orphanFatherMap' = removeOrphan(orphanFatherMap, g, o)
  /\ reply' = Answer("removeOrphan", TRUE, "")
  /\ OrphanFrame

ClearGame(g) ==
  /\ orphanFatherMap' = clearGame(orphanFatherMap, g)
  /\ reply' = Answer("clearGame", TRUE, "")
  /\ OrphanFrame

\* lines 456-470: the pairs whose orphan and father are both participants
MapData(pairs, ps) ==
  LET kept == {o \in DOMAIN pairs :
                 o \in DOMAIN ps /\ pairs[o] \in DOMAIN ps}
  IN  [o \in kept |-> pairs[o]]

\* socket.on('getOrphanMap', ({ roomId }, cb)); the keys of the pairs are
\* listed in the order they were first set, which the map does not record
GetOrphanMap(s) ==
  /\ s \in connected
  /\ IF Room \notin games
       THEN reply' = Answer("getOrphanMap", FALSE, "Game not found")
       ELSE LET mapData == MapData(getAllPairs(orphanFatherMap, Room),
                                   players)
            IN  \E order \in Orders(DOMAIN mapData) :
                  reply' = [event |-> "getOrphanMap", success |-> TRUE,
                            message |-> "", role |-> NoRole,
                            mapData |-> mapData,
                            chains |-> buildOrphanChains(mapData, order)]
  /\ UNCHANGED orphanFatherMap
  /\ OrphanFrame

NextOrphan ==
  \/ \E g \in OrphanRooms : \E o \in OrphansOf(g) : \E f \in FatherIds :
       SetFather(g, o, f)
  \/ \E g \in OrphanRooms : \E o \in OrphansOf(g) : RemoveOrphan(g, o)
  \/ \E g \in OrphanRooms : ClearGame(g)
  \/ \E s \in OrphanIds : GetOrphanMap(s)

SpecOrphan == InitOrphan /\ [][NextOrphan]_vars

(***************************************************************************)
(* orphanSelectFather and checkLastNight.                                  *)
(***************************************************************************)
\* socket.on('orphanSelectFather', ({ roomId, fatherId }, cb)); when every
\* real orphan has chosen, startNightPhase is scheduled (2000 ms)
OrphanSelectFather(s, fatherId) ==
  RoleAction(s, "orphanSelectFather", "orphan",
    IF fatherId = None \/ fatherId = s
      THEN Reject("orphanSelectFather", "Invalid father selection")
      ELSE LET chosen == setFather(orphanFatherMap, Room, s, fatherId)
               allOrphans == RealHolders(players, "orphan")
           IN  /\ orphanFatherMap' = chosen
               /\ reply' = Answer("orphanSelectFather", TRUE,
                                  "Father selected")
               /\ IF allOrphansChosen(chosen, Room, allOrphans)
                    THEN /\ CanSchedule
                         /\ timers' = Schedule("startNightPhase")
                    ELSE UNCHANGED timers
               /\ chose' = chose \cup {s}
               /\ UNCHANGED <<games, hostId, config, seats, players, roles,
                              rolePool, phase, nightActions,
                              nightPhaseActions, lovers, dayResults,
                              connected, started>>)

\* socket.on('checkLastNight', ({ roomId }, cb)): game.dayResults.deaths is
\* read whatever dayResults is, and game.players[id].name for every death
CheckLastNight(s) ==
  /\ s \in connected
  /\ IF Room \notin games \/ s # hostId
       THEN Reject("checkLastNight", "Only host can check status")
     ELSE IF dayResults.state # "set"
       THEN Throw("checkLastNight")
     ELSE IF Len(dayResults.deaths) = 0
       THEN /\ reply' = Answer("checkLastNight", TRUE, "peacefulNight")
            /\ UNCHANGED <<games, hostId, config, seats, players, roles,
                           rolePool, phase, NightVars, connected>>
     ELSE IF \E i \in DOMAIN dayResults.deaths :
               dayResults.deaths[i] \notin DOMAIN players
       THEN Throw("checkLastNight")
     ELSE /\ reply' = Answer("checkLastNight", TRUE, "deathAnnouncement")
          /\ UNCHANGED <<games, hostId, config, seats, players, roles,
                         rolePool, phase, NightVars, connected>>

(***************************************************************************)
(* SpecEvents: the night of a started game of two real participants in     *)
(* which every connection, a participant of whatever role or not a         *)
(* participant, sends every event with every payload.                      *)
(***************************************************************************)
EventRoleLists == {<<"werewolf", "seer">>, <<"werewolf", "witch">>}

InitEvents == \E rl \in EventRoleLists : InitNightOf(rl, {})

\* the participants and one connection that has not joined the room
EventSockets == 1..MaxEventSockets

\* payload identities: a participant and a connection that is not one
EventTargets == {2, MaxEventSockets}

NextEvents ==
  \/ \E s \in EventSockets : \E fatherId \in EventTargets :
       OrphanSelectFather(s, fatherId)
  \/ \E s \in EventSockets : \E targetIds \in {<<>>, <<1, 2>>} :
       CupidSelect(s, targetIds)
  \/ \E s \in EventSockets : \E targetId \in EventTargets :
       GuardProtect(s, targetId)
  \/ \E s \in EventSockets : \E targetId \in EventTargets :
       WerewolfKill(s, targetId)
  \/ \E s \in EventSockets : WitchSave(s)
  \/ \E s \in EventSockets : \E targetId \in EventTargets :
       WitchPoison(s, targetId)
  \/ \E s \in EventSockets : WitchComplete(s)
  \/ \E s \in EventSockets : WitchSkip(s)
  \/ \E s \in EventSockets : \E targetId \in EventTargets :
       SeerCheck(s, targetId)
  \/ \E s \in EventSockets : SeerComplete(s)
  \/ \E s \in EventSockets : HunterComplete(s)
  \/ \E s \in EventSockets : CheckLastNight(s)
  \/ \E t \in TimerNames : FireTimer(t)
  \/ FireStartDayPhase

SpecEvents == InitEvents /\ [][NextEvents]_vars

(***************************************************************************)
(* SpecGame: a started game of a werewolf and a seer, both real, in which  *)
(* the host may send startGame and shuffleRoles again at any time, the     *)
(* participants send the actions of their roles and continuations fire.    *)
(***************************************************************************)
InitGame == InitNightOf(<<"werewolf", "seer">>, {})

NextGame ==
  \/ \E s \in DOMAIN players : StartGame(s)
  \/ \E s \in DOMAIN players : ShuffleRoles(s)
  \/ \E s \in RealHolders(players, "werewolf") :
       \E targetId \in DOMAIN players : WerewolfKill(s, targetId)
  \/ \E s \in RealHolders(players, "seer") : SeerComplete(s)
  \/ \E s \in DOMAIN players : CheckLastNight(s)
  \/ \E t \in TimerNames : FireTimer(t)
  \/ FireStartDayPhase

SpecGame == InitGame /\ [][NextGame]_vars

(***************************************************************************)
(* SpecRestart: a room in the lobby whose participants are seated and have *)
(* drawn their roles.  The host starts the game, shuffles the roles and    *)
(* starts it again; the participants send orphanSelectFather at any time   *)
(* and continuations fire.                                                 *)
(***************************************************************************)
\* the roles drawn by the participants of seats 1.., and the tokens left in
\* the pool for the seats that are still empty
RestartRooms ==
  { [drawn |-> <<"orphan", "orphan">>, pool |-> <<>>],
    [drawn |-> <<"orphan">>, pool |-> <<"orphan">>],
    [drawn |-> <<"villager">>, pool |-> <<"orphan">>],
    [drawn |-> <<"werewolf", "villager">>, pool |-> <<>>] }

InitRestart ==
  \E rm \in RestartRooms :
    LET ids == 1..Len(rm.drawn)
        n == Len(rm.drawn) + Len(rm.pool)
    IN  /\ games = {Room}
        /\ hostId = 1
        /\ config = NightConfig(rm.drawn \o rm.pool)
        /\ seats = [k \in 1..n |-> IF k \in ids
                                     THEN [id |-> k, isConnected |-> TRUE]
                                     ELSE EmptySeat]
        /\ players = [id \in ids |->
                        [NewPlayer(id, id, 1) EXCEPT !.seat = id,
                                                     !.role = rm.drawn[id]]]
        /\ roles = [id \in ids |-> rm.drawn[id]]
        /\ rolePool = rm.pool
        /\ phase = "lobby"
        /\ nightActions = NoNightActions
        /\ nightPhaseActions = NoNightPhaseActions
        /\ lovers = <<>>
        /\ dayResults = NoDayResults
        /\ orphanFatherMap = Empty
        /\ timers = EmptyBag
        /\ connected = ids
        /\ started = {}
        /\ chose = {}
        /\ reply = Answer("chooseSeat", TRUE, "Seated successfully!")

NextRestart ==
  \/ \E s \in connected : StartGame(s)
  \/ \E s \in connected : ShuffleRoles(s)
  \/ \E s \in connected : \E fatherId \in DOMAIN players :
       OrphanSelectFather(s, fatherId)
  \/ \E t \in TimerNames : FireTimer(t)
  \/ FireStartDayPhase

SpecRestart == InitRestart /\ [][NextRestart]_vars

(***************************************************************************)
(* SpecTeardown: the night of a room with a cupid (the host) and a witch,  *)
(* both real, in which the connection of a participant may be lost at any  *)
(* time: the host's disconnect deletes the room while continuations are    *)
(* pending.                                                                *)
(***************************************************************************)
InitTeardown == InitNightOf(<<"cupid", "witch">>, {})

NextTeardown ==
  \/ \E s \in RealHolders(players, "cupid") :
       \E targetIds \in CupidPayloads : CupidSelect(s, targetIds)
  \/ \E s \in RealHolders(players, "witch") : WitchSave(s)
  \/ \E s \in RealHolders(players, "witch") :
       \E targetId \in DOMAIN players : WitchPoison(s, targetId)
  \/ \E s \in RealHolders(players, "witch") : WitchSkip(s)
  \/ \E s \in DOMAIN players : Disconnect(s)
  \/ \E t \in TimerNames : FireTimer(t)
  \/ FireStartDayPhase

SpecTeardown == InitTeardown /\ [][NextTeardown]_vars

(***************************************************************************)
(* SpecLive: the nights of SpecNight in which a real holder sends a        *)
(* completing action of its role when its sub-phase has been started and   *)
(* its flag is not set, and only then.  Every pending continuation fires   *)
(* in the end, and a holder that has been prompted answers in the end.     *)
(***************************************************************************)
\* the sub-phase of role r has been started and is not complete
Prompted(r) == r \in started /\ ~nightPhaseActions[r]

CupidActs ==
  /\ Prompted("cupid")
  /\ \E s \in RealHolders(players, "cupid") :
       \E targetIds \in (DOMAIN players) \X (DOMAIN players) :
         targetIds[1] # targetIds[2] /\ CupidSelect(s, targetIds)

GuardActs ==
  /\ Prompted("guard")
  /\ \E s \in RealHolders(players, "guard") :
       \E targetId \in DOMAIN players : GuardProtect(s, targetId)

WerewolfActs ==
  /\ Prompted("werewolf")
  /\ \E s \in RealHolders(players, "werewolf") :
       \E targetId \in DOMAIN players : WerewolfKill(s, targetId)

WitchActs ==
  /\ Prompted("witch")
  /\ nightActions.witchPoison = None /\ ~nightActions.witchSave
  /\ \E s \in RealHolders(players, "witch") :
       \/ WitchSave(s)
       \/ \E targetId \in DOMAIN players : WitchPoison(s, targetId)
       \/ WitchSkip(s)

SeerActs ==
  /\ Prompted("seer")
  /\ \E s \in RealHolders(players, "seer") : SeerComplete(s)

HunterActs ==
  /\ Prompted("hunter")
  /\ \E s \in RealHolders(players, "hunter") : HunterComplete(s)

NextLive ==
  \/ CupidActs
  \/ GuardActs
  \/ WerewolfActs
  \/ WitchActs
  \/ SeerActs
  \/ HunterActs
  \/ \E t \in TimerNames : FireTimer(t)
  \/ FireStartDayPhase

SpecLive ==
  /\ InitNight
  /\ [][NextLive]_vars
  /\ \A t \in TimerNames : WF_vars(FireTimer(t))
  /\ WF_vars(FireStartDayPhase)
  /\ WF_vars(CupidActs) /\ WF_vars(GuardActs) /\ WF_vars(WerewolfActs)
  /\ WF_vars(WitchActs) /\ WF_vars(SeerActs) /\ WF_vars(HunterActs)

(***************************************************************************)
(* SpecOrphanNight: one game of an orphan (the host), a werewolf and a     *)
(* villager, all real, from the state its startGame leaves: the orphan     *)
(* phase is open, no flag is set up and no continuation is pending.  No   *)
(* further startGame is sent.                                              *)
(***************************************************************************)
InitOrphanNight ==
  LET rl == <<"orphan", "werewolf", "villager">>
      ids == 1..Len(rl)
  IN  /\ games = {Room}
      /\ hostId = 1
      /\ config = NightConfig(rl)
      /\ seats = [k \in ids |-> [id |-> k, isConnected |-> TRUE]]
      /\ players = [id \in ids |-> NightPlayer(id, {}, rl[id])]
      /\ roles = [id \in ids |-> rl[id]]
      /\ rolePool = <<>>
      /\ phase = "night"
      /\ nightActions = FreshNightActions
      /\ nightPhaseActions = NoNightPhaseActions
      /\ lovers = <<>>
      /\ dayResults = FreshDayResults
      /\ orphanFatherMap = Put(Empty, Room, Empty)
      /\ timers = EmptyBag
      /\ connected = ids
      /\ started = {}
      /\ chose = {}
      /\ reply = Answer("startGame", TRUE, "Game started!")

NextOrphanNight ==
  \/ \E s \in RealHolders(players, "orphan") :
       \E fatherId \in DOMAIN players : OrphanSelectFather(s, fatherId)
  \/ \E s \in RealHolders(players, "werewolf") :
       \E targetId \in DOMAIN players : WerewolfKill(s, targetId)
  \/ \E t \in TimerNames : FireTimer(t)
  \/ FireStartDayPhase

SpecOrphanNight == InitOrphanNight /\ [][NextOrphanNight]_vars

(***************************************************************************)
(* Claims on the resolution (SpecDay).                                     *)
(***************************************************************************)
Resolved == phase = "day" /\ dayResults.state = "set"

\* the conditions under which the attack takes effect
KillTakesEffect ==
  /\ nightActions.werewolfKill # None
  /\ ~nightActions.witchSave
  /\ nightActions.guardProtect # nightActions.werewolfKill

\* both ends of the lover pair, as a set
LoverSet == {lovers[i] : i \in DOMAIN lovers}

\* the kill target is listed as the heartbroken lover of the poison target
KillTargetHeartbroken ==
  /\ ~KillTakesEffect
  /\ nightActions.witchPoison # None
  /\ nightActions.witchPoison # nightActions.werewolfKill
  /\ Len(lovers) = 2
  /\ LoverSet = {nightActions.werewolfKill, nightActions.witchPoison}

\* how often the kill target is listed for a reason other than the attack
OtherListings ==
  (IF nightActions.witchPoison = nightActions.werewolfKill THEN 1 ELSE 0)
    + (IF KillTargetHeartbroken THEN 1 ELSE 0)

\* C1: after startDayPhase the attack lists the kill target (one entry more
\* than the poison and heartbreak account for) if and only if a kill target
\* is recorded, no save is recorded and the protect target is another one.
C1_AttackIff ==
  Resolved =>
    /\ ~Includes(dayResults.deaths, None)
    /\ nightActions.werewolfKill # None =>
         CountIn(dayResults.deaths, nightActions.werewolfKill) - OtherListings
           = (IF KillTakesEffect THEN 1 ELSE 0)
    /\ KillTakesEffect => Head(dayResults.deaths) = nightActions.werewolfKill

C1_Witness ==
  /\ Resolved
  /\ KillTakesEffect
  /\ nightActions.guardProtect # None
  /\ dayResults.deaths = <<nightActions.werewolfKill>>

\* C2 as stated: with the protect target equal to the kill target, the kill
\* target is absent from dayResults.deaths.
C2_ProtectedAbsent ==
  (Resolved /\ nightActions.werewolfKill # None
     /\ nightActions.guardProtect = nightActions.werewolfKill)
    => ~Includes(dayResults.deaths, nightActions.werewolfKill)

\* C2 amended: with the protect target equal to the kill target, the kill
\* target is in dayResults.deaths only as the poison target or as the lover
\* of the poison target, whether or not a save is recorded.
C2_ProtectedNotKilled ==
  (Resolved /\ nightActions.werewolfKill # None
     /\ nightActions.guardProtect = nightActions.werewolfKill)
    => (Includes(dayResults.deaths, nightActions.werewolfKill)
          <=> (nightActions.witchPoison = nightActions.werewolfKill
                 \/ KillTargetHeartbroken))

C2_Witness ==
  /\ Resolved
  /\ nightActions.werewolfKill # None
  /\ nightActions.guardProtect = nightActions.werewolfKill
  /\ ~nightActions.witchSave
  /\ dayResults.deaths = <<>>

\* C3: a recorded poison target is in dayResults.deaths after startDayPhase,
\* whatever the protect target, the save flag and the kill target are.
C3_PoisonAlwaysDies ==
  (Resolved /\ nightActions.witchPoison # None)
    => Includes(dayResults.deaths, nightActions.witchPoison)

C3_Witness ==
  /\ Resolved
  /\ nightActions.witchPoison # None
  /\ nightActions.guardProtect = nightActions.witchPoison
  /\ nightActions.witchSave
  /\ Includes(dayResults.deaths, nightActions.witchPoison)

\* the number of entries the kill and the poison contribute
PreLen ==
  (IF KillTakesEffect THEN 1 ELSE 0)
    + (IF nightActions.witchPoison # None THEN 1 ELSE 0)

\* the death list computed from the kill and the poison
PreDeaths == SubSeq(dayResults.deaths, 1, PreLen)

\* C4: with lovers = [A, B], if exactly one of them is in the list computed
\* from the kill and the poison the other follows it, listed exactly once;
\* if both or neither are in it nothing is added.  A kill of A with no
\* save, protection or poison gives <<A, B>>.
C4_Heartbreak ==
  (Resolved /\ Len(lovers) = 2) =>
    LET a == lovers[1]
        b == lovers[2]
        aIn == Includes(PreDeaths, a)
        bIn == Includes(PreDeaths, b)
    IN  /\ Len(dayResults.deaths) >= PreLen
        /\ (aIn /\ ~bIn) =>
             /\ dayResults.deaths = PreDeaths \o <<b>>
             /\ CountIn(dayResults.deaths, b) = 1
        /\ (bIn /\ ~aIn) =>
             /\ dayResults.deaths = PreDeaths \o <<a>>
             /\ CountIn(dayResults.deaths, a) = 1
        /\ (aIn <=> bIn) => dayResults.deaths = PreDeaths
        /\ (KillTakesEffect /\ nightActions.witchPoison = None
              /\ nightActions.werewolfKill = a)
             => dayResults.deaths = <<a, b>>

C4_Witness ==
  /\ Resolved
  /\ Len(lovers) = 2
  /\ nightActions.witchPoison = lovers[2]
  /\ ~KillTakesEffect
  /\ dayResults.deaths = <<lovers[2], lovers[1]>>

\* C5: dayResults.deaths never lists the same participant twice.
C5_NoDuplicateDeaths ==
  Resolved =>
    \A i, j \in DOMAIN dayResults.deaths :
      i # j => dayResults.deaths[i] # dayResults.deaths[j]

(***************************************************************************)
(* Claims on the role pool (SpecPool).                                     *)
(***************************************************************************)
\* how often the configuration asks for role r
Configured(cfg, r) ==
  (IF r = "werewolf" THEN cfg.numWerewolves ELSE 0)
    + (IF r = "orphan" THEN cfg.numOrphans ELSE 0)
    + (IF r = "villager" THEN cfg.numVillagers ELSE 0)
    + CountIn(cfg.specialRoles, r)

ConfiguredTotal(cfg) ==
  cfg.numWerewolves + cfg.numOrphans + cfg.numVillagers
    + Len(cfg.specialRoles)

\* C8: when the role counts sum to totalPlayers the pool createRolePool
\* returns has length totalPlayers and holds every role the configured
\* number of times; the 6-seat scenario gives 2 werewolf, 1 seer, 3 villager.
C8_PoolIsConfiguredMultiset ==
  (reply.event = "createRolePool"
     /\ ConfiguredTotal(config) = config.totalPlayers) =>
    /\ Len(rolePool) = config.totalPlayers
    /\ \A r \in RoleNames : CountIn(rolePool, r) = Configured(config, r)
    /\ \A i \in DOMAIN rolePool : rolePool[i] \in RoleNames
    /\ config = ExampleConfig =>
         /\ Len(rolePool) = 6
         /\ CountIn(rolePool, "werewolf") = 2
         /\ CountIn(rolePool, "seer") = 1
         /\ CountIn(rolePool, "villager") = 3

C8_Witness ==
  /\ reply.event = "createRolePool"
  /\ config = ExampleConfig
  /\ rolePool = <<"villager", "seer", "werewolf", "villager", "werewolf",
                  "villager">>

\* C9: participants draw in the order 1, 2, ...; with a pool built with N
\* tokens every draw after the N-th finds the pool empty, leaves it empty,
\* returns "villager" and records it in players and roles; a draw is always
\* possible.
C9_EmptyPoolVillager ==
  LET n == Len(AllRoles(config))
      drawn == Cardinality(DOMAIN roles)
  IN  /\ \A id \in DOMAIN roles :
           id > n => /\ roles[id] = "villager"
                     /\ players[id].role = "villager"
                     /\ rolePool = <<>>
      /\ (drawn > n /\ reply.event = "assignRoleToPlayer")
           => reply.role = "villager"
      /\ (drawn + 1) \in DOMAIN players =>
           assignRoleToPlayer(config, rolePool, players, roles, drawn + 1)
             # {}

C9_Witness ==
  /\ Len(AllRoles(config)) = 1
  /\ Cardinality(DOMAIN roles) = 3
  /\ reply.event = "assignRoleToPlayer"
  /\ reply.role = "villager"
  /\ roles[1] = "werewolf"
  /\ roles[3] = "villager"

(***************************************************************************)
(* Claims on the room (Spec).                                              *)
(***************************************************************************)
\* the seats whose occupant carries identity id
SeatsOf(id) == {k \in DOMAIN seats : seats[k].id = id}

\* C6: in every reachable room state each participant identity occupies at
\* most one seat (a seat holds one occupant by construction).
C6_OneSeatPerIdentity ==
  \A k \in DOMAIN seats :
    seats[k].id # None => Cardinality(SeatsOf(seats[k].id)) <= 1

\* C7: in every reachable room state game.roles has at most
\* config.totalPlayers entries.
C7_RolesAtMostSeats == Cardinality(DOMAIN roles) <= config.totalPlayers

\* every seat's role is assigned after a reconnect moved a role and
\* startGame seated stand-ins
C7_Witness ==
  /\ Cardinality(DOMAIN roles) = config.totalPlayers
  /\ reply.event = "startGame"
  /\ reply.success
  /\ \E k \in DOMAIN seats : FakeId(k) \in DOMAIN roles
  /\ \E s \in Sockets :
       /\ s \in DOMAIN roles
       /\ s \in DOMAIN players
       /\ players[s].sessionId # s

IsSuffix(t, s) == \E n \in 0..Len(s) : t = SubSeq(s, n + 1, Len(s))

\* a successful shuffleRoles has just answered
Reshuffled == reply.event = "shuffleRoles" /\ reply.success

\* C10: between two reshuffles the pool only loses tokens from its head: in
\* every step of a room that is not a reshuffle, a built pool becomes one of
\* its own suffixes, and a pool not built yet stays so or becomes a suffix
\* of a freshly built one.
C10_PoolOnlyLosesHead ==
  [][(Room \in games /\ Room \in games' /\ ~Reshuffled')
       => IF rolePool = NullPool
            THEN \/ rolePool' = NullPool
                 \/ \E built \in createRolePool(config) :
                      IsSuffix(rolePool', built)
            ELSE /\ rolePool' # NullPool
                 /\ IsSuffix(rolePool', rolePool)]_vars

\* a token is left in the pool after a draw, a disconnect and a reconnect
C10_Witness ==
  /\ Room \in games
  /\ reply.event = "joinGame"
  /\ reply.message = "Reconnected successfully!"
  /\ rolePool # NullPool
  /\ Len(rolePool) = 1
  /\ Cardinality(DOMAIN roles) = 1
  /\ \E s \in Sockets \ connected : TRUE

\* the sender holds a seat: a seat names it, or its record names a seat
HoldsSeat(s) ==
  \/ SeatOf(seats, s) # None
  \/ s \in DOMAIN players /\ players[s].seat # None

\* the cases in which chooseSeat of socket s for seatId has to fail
MustFailChooseSeat(s, seatId) ==
  \/ Room \notin games
  \/ s \notin DOMAIN players
  \/ seatId \notin DOMAIN seats
  \/ seats[seatId].id # None
  \/ HoldsSeat(s)

\* C11: chooseSeat answers a failure and leaves seats, players, roles and
\* rolePool as they are when the seat is occupied, when the sender already
\* holds a seat, when the seat number does not exist, or when the sender is
\* not a participant of the room.
C11_ChooseSeatFails ==
  [][\A s \in Sockets : \A seatId \in 1..(RoomSeats + 1) :
       (ChooseSeat(s, seatId) /\ MustFailChooseSeat(s, seatId))
         => /\ ~reply'.success
            /\ UNCHANGED <<seats, players, roles, rolePool>>]_vars

\* a seated participant has asked for the seat that is still empty
C11_Witness ==
  /\ reply.event = "chooseSeat"
  /\ ~reply.success
  /\ reply.message =
       "You are already seated. Cannot change seats once seated."
  /\ \E k \in DOMAIN seats : seats[k].id = None

\* the identities that occupy a seat
Occupants == {seats[k].id : k \in DOMAIN seats} \ {None}

\* the roles held together with what is left in the pool, as a bag
HeldAndPool ==
  [r \in RoleNames |->
     Cardinality({id \in DOMAIN roles : roles[id] = r})
       + CountIn(rolePool, r)]

\* C12: after a successful shuffleRoles the phase is lobby, every occupant
\* of a seat (human or stand-in) holds a role of the rebuilt pool, no
\* participant without a seat has one, and when the configured counts sum
\* to totalPlayers the roles held and the pool left are the configured
\* multiset (the pool is rebuilt by the first draw: with nobody to draw it
\* is still unbuilt and no role is held).
C12_ShuffleRedraws ==
  Reshuffled =>
    /\ phase = "lobby"
    /\ rolePool = NullPool => roles = Empty
    /\ \A id \in Occupants :
         /\ id \in DOMAIN roles
         /\ id \in DOMAIN players
         /\ players[id].role = roles[id]
    /\ \A id \in DOMAIN players \ Occupants :
         /\ id \notin DOMAIN roles
         /\ players[id].role = NoRole
    /\ (rolePool # NullPool
          /\ ConfiguredTotal(config) = config.totalPlayers) =>
         \A r \in RoleNames : HeldAndPool[r] = Configured(config, r)

(***************************************************************************)
(* Claims on the night (SpecRejoin, SpecNight).                            *)
(***************************************************************************)
\* the reconnect branch of joinGame has just answered
Reconnected ==
  reply.event = "joinGame" /\ reply.message = "Reconnected successfully!"

\* the identities the recorded night state names
RecordedIds ==
  ({lovers[i] : i \in DOMAIN lovers}
     \cup {nightActions.werewolfKill, nightActions.witchPoison,
           nightActions.guardProtect, nightActions.seerCheck}) \ {None}

\* C13: after a reconnecting join the seats, the role assignment and the
\* recorded state (lover pair, targets of the recorded night actions) name
\* participants of the room only: nothing is left naming the old identity,
\* and every participant with a role in its record has it in game.roles.
C13_RejoinRebinds ==
  Reconnected =>
    /\ \A k \in DOMAIN seats : seats[k].id \in DOMAIN players
    /\ DOMAIN roles = {id \in DOMAIN players : players[id].role # NoRole}
    /\ \A id \in DOMAIN roles : roles[id] = players[id].role
    /\ RecordedIds \subseteq DOMAIN players

\* C14: a joinGame of socket s that carries the session id of another
\* participant whose record says isConnected does not take the participant
\* over: its record stays under its own id, and the seats and the role
\* assignment stay as they are.
C14_NoTakeoverOfConnected ==
  [][\A s \in Sockets : \A old \in DOMAIN players :
       (/\ old # s
        /\ players[old].sessionId # None
        /\ players[old].isConnected
        /\ JoinGame(s, players[old].sessionId))
         => /\ old \in DOMAIN players'
            /\ players'[old] = players[old]
            /\ seats' = seats
            /\ roles' = roles]_vars

C16_DisconnectKeepsState ==
  [][\A s \in NightSockets :
       (/\ Room \in games
        /\ s \in DOMAIN players
        /\ s # hostId
        /\ Disconnect(s))
         => /\ players' = [players EXCEPT ![s].isConnected = FALSE]
            /\ DOMAIN seats' = DOMAIN seats
            /\ \A k \in DOMAIN seats :
                 /\ seats'[k].id = seats[k].id
                 /\ seats'[k].isConnected # seats[k].isConnected
                      => seats[k].id = s
            /\ UNCHANGED <<games, roles, rolePool, phase, nightActions,
                           nightPhaseActions, lovers, dayResults, timers>>]_vars

\* the connection of a seated werewolf is lost after a kill was recorded
C16_Witness ==
  /\ reply.event = "disconnect"
  /\ nightActions.werewolfKill # None
  /\ \E id \in DOMAIN players :
       /\ ~players[id].isConnected
       /\ id \notin connected
       /\ players[id].role = "werewolf"
       /\ seats[players[id].seat] = [id |-> id, isConnected |-> FALSE]

\* C17: the disconnect of the host's connection removes the room from the
\* registry in the same event, whether or not the host is a participant.
C17_HostDisconnectRemovesRoom ==
  [][(Room \in games /\ Disconnect(hostId)) => Room \notin games']_vars

\* every role that has a holder in the room has its completion flag set
PresentRolesComplete ==
  \A r \in {"cupid", "guard", "werewolf", "witch", "seer", "hunter"} :
    Holders(players, r) # {} => nightPhaseActions[r]

\* C18: a role without a holder never keeps the night from advancing: in a
\* night in which every role that has a holder is complete and no
\* continuation is pending, the convergence step schedules the transition
\* to the day; it does not wait for the flag of a role nobody holds.
C18_AbsentRoleNeverWaitedOn ==
  (/\ Room \in games
   /\ phase = "night"
   /\ timers = EmptyBag
   /\ PresentRolesComplete)
    => BagIn("startDetectorElectionPhase",
             checkNightPhaseComplete(players, nightPhaseActions,
                                     EmptyBag).timers)

\* the room holds werewolf, seer and hunter and no witch
SeerHunterCast ==
  /\ Room \in games
  /\ \A r \in {"werewolf", "seer", "hunter"} : Holders(players, r) # {}
  /\ Holders(players, "witch") = {}

\* C19: with werewolf, seer and hunter present and no witch, the hunter
\* sub-phase is started only after the seer sub-phase has been started and
\* only when the seer flag is true, and the convergence step that finds the
\* werewolf, seer and hunter flags true schedules the day whatever the
\* witch flag is.
C19_SeerBeforeHunter ==
  [][SeerHunterCast =>
       /\ "hunter" \in started' => "seer" \in started'
       /\ "hunter" \in started' \ started => nightPhaseActions.seer
       /\ (/\ FireTimer("checkNightPhaseComplete")
           /\ PresentRolesComplete)
            => BagIn("startDetectorElectionPhase", timers')]_vars

\* the identities a lovers array names
LoverIds(l) == {l[i] : i \in DOMAIN l}

\* C20: once lovers names two identities, no step of the game changes its
\* membership while the room exists.
C20_LoversNeverChange ==
  [][(/\ Room \in games
      /\ Room \in games'
      /\ Cardinality(LoverIds(lovers)) = 2)
       => LoverIds(lovers') = LoverIds(lovers)]_vars

\* the roles of the night that have a holder, and the first of witch, seer,
\* hunter among them whose flag is false
PresentRoles ==
  {r \in {"cupid", "guard", "werewolf", "witch", "seer", "hunter"} :
     Holders(players, r) # {}}

Waiting(r) == r \in PresentRoles /\ ~nightPhaseActions[r]

FirstWaiting ==
  IF Waiting("witch") THEN "witch"
  ELSE IF Waiting("seer") THEN "seer"
  ELSE IF Waiting("hunter") THEN "hunter"
  ELSE "none"

\* one more continuation t is pending after the step, beside the one fired
ScheduledBy(fired, t) ==
  timers' = (timers (-) SetToBag({fired})) (+) SetToBag({t})

\* C28: the convergence step does nothing while the werewolf flag is
\* false; when it is true it schedules the day transition exactly when the
\* flag of every present role is true, and otherwise schedules the
\* sub-phase of the first present role among witch, seer, hunter whose flag
\* is false.
C28_ConvergenceStep ==
  [][(Room \in games /\ FireTimer("checkNightPhaseComplete")) =>
       LET check == "checkNightPhaseComplete"
           allComplete == \A r \in PresentRoles : nightPhaseActions[r]
       IN  /\ nightPhaseActions' = nightPhaseActions
           /\ ~nightPhaseActions.werewolf
                => timers' = timers (-) SetToBag({check})
           /\ nightPhaseActions.werewolf =>
                /\ allComplete
                     <=> ScheduledBy(check, "startDetectorElectionPhase")
                /\ (~allComplete /\ FirstWaiting # "none")
                     => ScheduledBy(check,
                                    "startCharacterPhase_" \o FirstWaiting)]_vars

\* the step has just scheduled the seer's sub-phase while the hunter is
\* waiting as well
C28_Witness ==
  /\ Room \in games
  /\ reply = Answer("none", TRUE, "checkNightPhaseComplete")
  /\ nightPhaseActions.werewolf
  /\ Waiting("seer")
  /\ Waiting("hunter")
  /\ BagIn("startCharacterPhase_seer", timers)

\* C29: in a night with a guard the guard sub-phase is started before the
\* werewolf sub-phase, and once the guard has completed the werewolf
\* sub-phase is started: the night does not rest with the guard complete
\* and the werewolves never called.
C29_GuardThenWerewolf ==
  (/\ Room \in games
   /\ phase = "night"
   /\ Holders(players, "guard") # {}
   /\ Holders(players, "werewolf") # {})
    => /\ "werewolf" \in started => "guard" \in started
       /\ (nightPhaseActions.guard /\ timers = EmptyBag)
            => "werewolf" \in started

\* C30: a sub-phase started for a role that only stand-ins hold sets the
\* role's completion flag and schedules the continuation of the sequence.
C30_StandInsAutoComplete ==
  [][\A r \in PresentRoles :
       (/\ Room \in games
        /\ RealHolders(players, r) = {}
        /\ r \in StartedBy(reply'.event)
        /\ \E t \in TimerNames : FireTimer(t))
         => /\ nightPhaseActions'[r]
            /\ BagCardinality(timers') = BagCardinality(timers)]_vars

(***************************************************************************)
(* Claims on orphanManager (SpecOrphan).                                   *)
(***************************************************************************)
\* room g records a father for o
HasRecordedFather(m, g, o) == g \in DOMAIN m /\ o \in DOMAIN m[g]

AllChosenIffRecorded(m) ==
  \A g \in OrphanRooms : \A ids \in SUBSET OrphanIds :
    allOrphansChosen(m, g, ids)
      <=> (ids = {} \/ \A o \in ids : HasRecordedFather(m, g, o))

\* C23: after any sequence of setFather, removeOrphan and clearGame on any
\* rooms, allOrphansChosen is true for the empty set and, for a non-empty
\* set, exactly when every id of the set has a father recorded in the room:
\* setFather records it, removeOrphan and clearGame remove the record.
C23_AllChosenIffRecorded ==
  [][/\ AllChosenIffRecorded(orphanFatherMap')
     /\ \A g \in OrphanRooms : \A o \in OrphanIds :
          /\ (/\ reply'.event = "setFather"
              /\ \E f \in FatherIds :
                   orphanFatherMap' = setFather(orphanFatherMap, g, o, f))
               => allOrphansChosen(orphanFatherMap', g, {o})
          /\ (/\ reply'.event = "removeOrphan"
              /\ orphanFatherMap' = removeOrphan(orphanFatherMap, g, o))
               => ~allOrphansChosen(orphanFatherMap', g, {o})
          /\ (/\ reply'.event = "clearGame"
              /\ orphanFatherMap' = clearGame(orphanFatherMap, g))
               => ~allOrphansChosen(orphanFatherMap', g, {o})]_vars

C23_Witness ==
  /\ reply.event = "removeOrphan"
  /\ Room \in DOMAIN orphanFatherMap
  /\ "OTHER" \in DOMAIN orphanFatherMap
  /\ DOMAIN orphanFatherMap[Room] = {1, 2}
  /\ 3 \in DOMAIN orphanFatherMap["OTHER"]
  /\ allOrphansChosen(orphanFatherMap, Room, {1, 2})
  /\ ~allOrphansChosen(orphanFatherMap, Room, {1, 2, 3})

\* the last step answered getOrphanMap with chains
ChainsAnswered == reply.event = "getOrphanMap" /\ reply.success

\* C24: on the map a -> b, b -> c with c not a dependent the chains hold
\* the chain a, b, c without loop; and every chain whose walk ends at a
\* father who is not a dependent has that father as its last node.
C24_ChainEndsWithFather ==
  ChainsAnswered =>
    LET mapData == reply.mapData
        chains == reply.chains
    IN  /\ \A a, b \in DOMAIN mapData :
             (/\ DOMAIN mapData = {a, b}
              /\ a # b
              /\ mapData[a] = b
              /\ mapData[b] \notin DOMAIN mapData)
               => \E i \in DOMAIN chains :
                    /\ chains[i].nodes = <<a, b, mapData[b]>>
                    /\ ~chains[i].hasLoop
        /\ \A i \in DOMAIN chains :
             ~chains[i].hasLoop =>
               LET nodes == chains[i].nodes
               IN  /\ Len(nodes) >= 2
                   /\ nodes[Len(nodes)] \notin DOMAIN mapData
                   /\ nodes[Len(nodes)] = mapData[nodes[Len(nodes) - 1]]
                   /\ \A k \in 1..(Len(nodes) - 1) :
                        nodes[k] \in DOMAIN mapData

C24_Witness ==
  /\ ChainsAnswered
  /\ DOMAIN reply.mapData = {1, 2}
  /\ reply.mapData[1] = 2
  /\ reply.mapData[2] = 3
  /\ \E i \in DOMAIN reply.chains :
       reply.chains[i] = [nodes |-> <<1, 2, 3>>, hasLoop |-> FALSE]

\* the id reached from a after k father links, None once the links leave
\* the dependents
RECURSIVE FatherLinks(_, _, _)
FatherLinks(mapData, a, k) ==
  IF a \notin DOMAIN mapData THEN None
  ELSE IF k = 0 THEN a
  ELSE FatherLinks(mapData, mapData[a], k - 1)

\* the links from a never leave the dependents: the walk revisits a node
Revisits(mapData, a) ==
  FatherLinks(mapData, a, Cardinality(DOMAIN mapData)) # None

\* C25: a chain has hasLoop = true exactly when the walk from its first
\* node revisits a node of the walk; it then stops at the repeated node
\* (every node is a dependent and the father of the last one is already in
\* the chain), and no chain names an identity twice.
C25_LoopMarkedNoRepeat ==
  ChainsAnswered =>
    LET mapData == reply.mapData
        chains == reply.chains
    IN  \A i \in DOMAIN chains :
          LET nodes == chains[i].nodes
          IN  /\ Len(nodes) > 0
              /\ \A j, k \in DOMAIN nodes : nodes[j] = nodes[k] => j = k
              /\ chains[i].hasLoop <=> Revisits(mapData, nodes[1])
              /\ chains[i].hasLoop =>
                   /\ \A k \in DOMAIN nodes : nodes[k] \in DOMAIN mapData
                   /\ \E k \in DOMAIN nodes :
                        nodes[k] = mapData[nodes[Len(nodes)]]

C25_Witness ==
  /\ ChainsAnswered
  /\ reply.mapData = (1 :> 2 @@ 2 :> 3 @@ 3 :> 1)
  /\ \E i \in DOMAIN reply.chains :
       /\ reply.chains[i].hasLoop
       /\ Len(reply.chains[i].nodes) = 3

(***************************************************************************)
(* Claims on the events (SpecEvents).                                      *)
(***************************************************************************)
\* socket s sends a role action whose role is not the one of its record
\* (the answer of a handler names its event)
WrongRoleAction(s) ==
  LET role == players[s].role
      event == reply'.event
  IN  \/ /\ event = "orphanSelectFather" /\ role # "orphan"
         /\ \E fatherId \in EventTargets : OrphanSelectFather(s, fatherId)
      \/ /\ event = "cupidSelect" /\ role # "cupid"
         /\ \E targetIds \in {<<>>, <<1, 2>>} : CupidSelect(s, targetIds)
      \/ /\ event = "guardProtect" /\ role # "guard"
         /\ \E targetId \in EventTargets : GuardProtect(s, targetId)
      \/ /\ event = "werewolfKill" /\ role # "werewolf"
         /\ \E targetId \in EventTargets : WerewolfKill(s, targetId)
      \/ /\ event = "witchSave" /\ role # "witch" /\ WitchSave(s)
      \/ /\ event = "witchPoison" /\ role # "witch"
         /\ \E targetId \in EventTargets : WitchPoison(s, targetId)
      \/ /\ event = "witchComplete" /\ role # "witch" /\ WitchComplete(s)
      \/ /\ event = "witchSkip" /\ role # "witch" /\ WitchSkip(s)
      \/ /\ event = "seerCheck" /\ role # "seer"
         /\ \E targetId \in EventTargets : SeerCheck(s, targetId)
      \/ /\ event = "seerComplete" /\ role # "seer" /\ SeerComplete(s)
      \/ /\ event = "hunterComplete" /\ role # "hunter"
         /\ HunterComplete(s)

\* C21: a role action sent by a participant whose role is not the action's
\* role is answered with a failure, changes nothing in the room and
\* schedules no continuation.
C21_WrongRoleRejected ==
  [][\A s \in EventSockets \cap DOMAIN players :
       (Room \in games /\ WrongRoleAction(s))
         => /\ ~reply'.success
            /\ UNCHANGED <<games, hostId, config, seats, players, roles,
                           rolePool, phase, nightActions, nightPhaseActions,
                           lovers, dayResults, orphanFatherMap, timers,
                           connected, started, chose>>]_vars

\* the werewolf has acted, and the last step refused a seer's action sent
\* by a participant that is not the seer
C21_Witness ==
  /\ Room \in games
  /\ nightPhaseActions.werewolf
  /\ reply = Answer("seerComplete", FALSE, "Invalid action")
  /\ ~nightPhaseActions.seer

\* the role whose handler answers with the event
ActionRole ==
  [cupidSelect |-> "cupid", guardProtect |-> "guard",
   werewolfKill |-> "werewolf", witchSave |-> "witch",
   witchPoison |-> "witch", witchComplete |-> "witch",
   witchSkip |-> "witch", seerCheck |-> "seer", seerComplete |-> "seer",
   hunterComplete |-> "hunter"]

\* C22: once the completion flag of a role is true, a further action of
\* that role in the same night is answered with a failure, leaves the
\* night-action bag as it is and schedules no further continuation.
C22_RejectedOnceComplete ==
  [][(/\ Room \in games
      /\ nightPhaseActions.defined
      /\ reply'.event \in DOMAIN ActionRole
      /\ nightPhaseActions[ActionRole[reply'.event]])
       => /\ ~reply'.success
          /\ nightActions' = nightActions
          /\ timers' = timers]_vars

\* the events a connection can send
InboundEvents ==
  DOMAIN ActionRole
    \cup {"orphanSelectFather", "checkLastNight", "joinGame", "chooseSeat",
          "startGame", "shuffleRoles"}

\* C26: no event addressed to an existing room ends in an unhandled
\* error: every one of them is answered with a success or failure result.
C26_NoUnhandledError ==
  (Room \in games /\ reply.event \in InboundEvents)
    => reply.message # "TypeError"

(***************************************************************************)
(* Claims on the whole game (SpecGame).                                    *)
(***************************************************************************)
PhaseRank == [lobby |-> 0, night |-> 1, day |-> 2]

\* C27: while the room exists its phase moves only forward in the order
\* lobby, night, day, except for the host's shuffleRoles, which resets it
\* to lobby; no other step moves it backward.
C27_PhaseForward ==
  [][(/\ Room \in games
      /\ Room \in games'
      /\ PhaseRank[phase'] < PhaseRank[phase])
       => (reply' = Answer("shuffleRoles", TRUE,
                           "Roles shuffled successfully!")
           /\ phase' = "lobby")]_vars

(***************************************************************************)
(* Claims on the start of the night (SpecRestart).                         *)
(***************************************************************************)
\* C31: in a started game the night starts only when every real orphan has
\* had a selection of a participant other than itself accepted since the
\* start-game, and a start-game in a room without an orphan starts it at
\* once.
C31_NightAfterChoices ==
  [][/\ (Room \in games /\ phase = "night" /\ FireTimer("startNightPhase"))
          => RealHolders(players, "orphan") \subseteq chose
     /\ \A s \in connected :
          (StartGame(s) /\ reply'.success
             /\ Holders(players', "orphan") = {})
            => BagIn("nightIntro", timers')]_vars

(***************************************************************************)
(* Claims on the witch and the seer (SpecNight).                           *)
(***************************************************************************)
\* C32: the night-action bag never holds both witchSave = true and a poison
\* target: the witch ends her turn with one of save, poison and skip.
C32_WitchOneAction ==
  Room \in games
    => ~(nightActions.witchSave /\ nightActions.witchPoison # None)

\* C33: an accepted seerCheck records the target and its faction (werewolf
\* exactly when the target's role is werewolf), is answered to the sender,
\* and leaves the completion flags and the pending continuations as they
\* were; while a real seer is in the game its flag is set by seerComplete
\* only.
C33_CheckDoesNotComplete ==
  [][\A s \in RealHolders(players, "seer") :
       /\ \A targetId \in DOMAIN players :
            (/\ reply'.event = "seerCheck" /\ reply'.success
             /\ SeerCheck(s, targetId))
              => /\ nightActions'.seerCheck = targetId
                 /\ (nightActions'.seerResult = "werewolf")
                      <=> (players[targetId].role = "werewolf")
                 /\ nightPhaseActions' = nightPhaseActions
                 /\ timers' = timers
       /\ (~nightPhaseActions.seer /\ nightPhaseActions'.seer)
            => SeerComplete(s)]_vars

\* the seer has checked a werewolf and has not acknowledged the result
C33_Witness ==
  /\ reply.event = "seerCheck" /\ reply.success
  /\ nightActions.seerResult = "werewolf"
  /\ ~nightPhaseActions.seer
  /\ "seer" \in started

(***************************************************************************)
(* Claims on stale continuations (SpecTeardown, SpecGame).                 *)
(***************************************************************************)
\* C34: once the room has been deleted, a continuation that fires changes
\* no state, emits no notification and schedules nothing.
C34_NoOpAfterTeardown ==
  [][\A t \in TimerNames :
       (Room \notin games /\ FireTimer(t))
         => /\ reply'.event = "none"
            /\ timers' = timers (-) SetToBag({t})
            /\ UNCHANGED <<games, hostId, config, seats, players, roles,
                           rolePool, phase, nightActions, nightPhaseActions,
                           lovers, dayResults, orphanFatherMap, connected>>]_vars

\* C35: after shuffleRoles has reset the room to the lobby, phase stays
\* lobby and dayResults stays reset in every step that is not a startGame
\* of the host.
C35_LobbyUntilStart ==
  [][(/\ Room \in games /\ phase = "lobby"
      /\ dayResults = EmptyDayResults
      /\ ~(StartGame(hostId) /\ reply'.success))
       => /\ phase' = "lobby"
          /\ dayResults' = EmptyDayResults]_vars

(***************************************************************************)
(* Claims on the end of the night (SpecNight).                             *)
(***************************************************************************)
\* C36: in one night startDayPhase computes dayResults and announces the
\* day once: when it runs, the room has not reached the day yet.
C36_DayOnce ==
  [][(Room \in games /\ FireStartDayPhase) => phase = "night"]_vars

\* C37: when continuations fire and prompted holders answer, the room of a
\* started game reaches the day.
C37_EventuallyDay == <>(phase = "day")

(***************************************************************************)
(* Claims on the completion flags (SpecOrphanNight).                       *)
(***************************************************************************)
\* C38: within the night of one startGame a completion flag that is set
\* stays set.
C38_FlagsOnlyRise ==
  [][\A r \in {"cupid", "guard", "werewolf", "witch", "seer", "hunter"} :
       (Room \in games /\ nightPhaseActions[r]) => nightPhaseActions'[r]]_vars

(***************************************************************************)
(* Claims on the size of the room (Spec).                                  *)
(***************************************************************************)
\* C39: the room never has more participants, stand-ins included, than
\* config.totalPlayers.
C39_AtMostTotalPlayers ==
  Room \in games => Cardinality(DOMAIN players) <= config.totalPlayers

(***************************************************************************)
(* Claims on buildOrphanChains (SpecOrphan).                               *)
(***************************************************************************)
\* C40: buildOrphanChains returns for every map, self-links, cycles and
\* shared fathers included: no chain has more nodes than the map has
\* dependents plus the last father, there are no more chains than
\* dependents, and every dependent is a node of a returned chain.
C40_ChainsCoverDependents ==
  ChainsAnswered
    => LET mapData == reply.mapData
           chains == reply.chains
       IN  /\ Len(chains) <= Cardinality(DOMAIN mapData)
           /\ \A i \in DOMAIN chains :
                Len(chains[i].nodes) <= Cardinality(DOMAIN mapData) + 1
           /\ \A o \in DOMAIN mapData :
                \E i \in DOMAIN chains :
                  \E k \in DOMAIN chains[i].nodes : chains[i].nodes[k] = o

\* the chains of a map in which every dependent points at the first one,
\* which points at itself
C40_Witness ==
  /\ ChainsAnswered
  /\ DOMAIN reply.mapData = OrphanIds
  /\ \A o \in OrphanIds : reply.mapData[o] = 1

====
